---- MODULE Spec2Model ----
(***************************************************************************)
(* A model of the SQLite multi-database REST API: the query result cache   *)
(* (services/cache_service.py, class QueryCache) and the execution         *)
(* coordinator around it (main.py: run_query, execute_query,               *)
(* get_db_connection, periodic_cache_cleanup).                             *)
(*                                                                         *)
(* Two specifications are given.  CacheSpec drives one QueryCache object   *)
(* by whole calls of its methods, one at a time.  Spec is the running      *)
(* service: the event loop, the thread pool's workers and the sweeper,     *)
(* interleaved statement by statement.                                     *)
(***************************************************************************)
EXTENDS Integers, Sequences, FiniteSets, TLC

VARIABLES
    query_cache,    \* the QueryCache object: cache, expiration_times, lru_keys, ...
    now,            \* the clock read by time.time()
    last,           \* CacheSpec: the most recent call, its arguments and what it returned
    hist,           \* CacheSpec: the calls made since the cache was last empty by construction
    stored,         \* CacheSpec: key -> the payload of the latest set of a key that has an entry
    query_results,  \* main.query_results: submission id -> Task
    db_connections, \* main.db_connections: database name -> connection handle
    db_data,        \* the engine's state: database name -> number of committed writes
    nconn,          \* number of connection handles opened so far
    opened,         \* handle -> who opened it, for which name, and whether the file existed
    db_files,       \* the databases that have a file in DB_DIR
    extension_files,\* the shared libraries found in EXTENSIONS_DIR
    max_workers,    \* settings.MAX_WORKERS as read from the environment: the pool's size
    db_extensions,  \* main.db_extensions: database name -> the extension names recorded
    loaded,         \* the pairs <<handle, extension name>> of the extensions a handle has loaded
    ext_calls,      \* the pairs <<database name, extension name>> load_extension returned True for
    req,            \* submission id -> the QueryRequest it was submitted with
    queue,          \* the executor's work queue: submitted jobs no worker has taken yet
    pc,             \* where each submission, and the sweeper, stands in its code
    loc,            \* the local variables of each thread
    response,       \* submission id -> what run_query returned to its caller
    polled,         \* the latest call of get_query_status: the id and the answer
    created,        \* the latest call of create_database: the name and the status code
    writes,         \* submission id -> number of terminal writes of its Task so far
    path            \* submission id -> what its worker has done so far in execute_query

cache_vars == <<query_cache, now, last, hist, stored>>
call_vars == <<last, hist, stored>>
task_vars == <<query_results, writes>>
env_vars == <<db_data, extension_files, max_workers>>
conn_vars == <<db_connections, nconn, opened, db_files>>
ext_vars == <<db_extensions, loaded, ext_calls>>
store_vars == <<db_connections, nconn, opened, db_files, db_data, extension_files,
                max_workers, db_extensions, loaded, ext_calls>>
io_vars == <<req, queue, response, polled, created>>
sys_vars == <<query_results, db_connections, db_data, nconn, opened, db_files,
              extension_files, max_workers, db_extensions, loaded, ext_calls, req, queue,
              pc, loc, response, polled, created, writes, path>>
vars == <<query_cache, now, last, hist, stored, query_results, db_connections, db_data, nconn,
          opened, db_files, extension_files, max_workers, db_extensions, loaded, ext_calls,
          req, queue, pc, loc, response, polled, created, writes, path>>

(***************************************************************************)
(* Bounds of the model.                                                    *)
(***************************************************************************)
MaxTime == 2        \* the clock takes the values 0..MaxTime
MaxTtl == 1         \* explicit TTLs range over -1..MaxTtl
MaxCap == 2         \* MAX_CACHE_SIZE ranges over 1..MaxCap
MaxHits == 3        \* cap on an entry's hit counter
MaxClock == 1       \* Spec: the clock takes the values 0..MaxClock
MaxSubmissions == 2 \* submissions accepted in one run
MaxWrites == 1      \* committed writes per database in one run

\* settings.CACHE_EXPIRY (300 seconds), in the model's clock units.
CACHE_EXPIRY == 2

None == "None"

Keys == {"a", "b", "c"}
Payloads == {"r1", "r2"}
\* Optional[int]: <<>> is None, <<n>> is the integer n.
NoTtl == <<>>
Ttls == {NoTtl} \cup {<<n>> : n \in -1 .. MaxTtl}

(***************************************************************************)
(* Python list and dict primitives.                                        *)
(***************************************************************************)
\* x in list
In(s, x) == \E i \in 1..Len(s) : s[i] = x

\* list.remove(x): drops the first occurrence of x.
ListRemove(s, x) ==
    LET i == CHOOSE i \in 1..Len(s) : s[i] = x /\ \A j \in 1..(i - 1) : s[j] # x
    IN  SubSeq(s, 1, i - 1) \o SubSeq(s, i + 1, Len(s))

\* del d[k]
DictDel(d, k) == [x \in (DOMAIN d) \ {k} |-> d[x]]

\* d[k] = v
DictPut(d, k, v) == (k :> v) @@ d

EmptyDict == [x \in {} |-> None]

(***************************************************************************)
(* QueryCache (services/cache_service.py).  An object is a record          *)
(*   [cache, expiration_times, lru_keys, max_cache_size, default_ttl];     *)
(* t is the value time.time() returns during the call.                     *)
(***************************************************************************)
QueryCache(size) ==
    [cache |-> EmptyDict, expiration_times |-> EmptyDict, lru_keys |-> <<>>,
     max_cache_size |-> size, default_ttl |-> CACHE_EXPIRY]

\* if cache_key in self.cache: del self.cache[cache_key]
DelCache(qc, cache_key) ==
    IF cache_key \in DOMAIN qc.cache
    THEN [qc EXCEPT !.cache = DictDel(@, cache_key)] ELSE qc

\* if cache_key in self.expiration_times: del self.expiration_times[cache_key]
DelExpiry(qc, cache_key) ==
    IF cache_key \in DOMAIN qc.expiration_times
    THEN [qc EXCEPT !.expiration_times = DictDel(@, cache_key)] ELSE qc

\* if cache_key in self.lru_keys: self.lru_keys.remove(cache_key)
DelLru(qc, cache_key) ==
    IF In(qc.lru_keys, cache_key)
    THEN [qc EXCEPT !.lru_keys = ListRemove(@, cache_key)] ELSE qc

_remove_item(qc, cache_key) ==
    DelLru(DelExpiry(DelCache(qc, cache_key), cache_key), cache_key)

\* A variant that takes the most recently used key (pop() instead of pop(0)).
PopMruKey(qc) == qc.lru_keys[Len(qc.lru_keys)]

\* lru_key = self.lru_keys.pop(0)
PopLruKey(qc) == Head(qc.lru_keys)

PopLru(qc) == [qc EXCEPT !.lru_keys = Tail(@)]

_remove_lru_item(qc) ==
    IF qc.lru_keys # <<>> THEN _remove_item(PopLru(qc), PopLruKey(qc)) ELSE qc

\* A variant with the capacity test off by one (> instead of >=).
CacheOverFull(qc) == Cardinality(DOMAIN qc.cache) > qc.max_cache_size

\* if len(self.cache) >= self.max_cache_size
CacheFull(qc) == Cardinality(DOMAIN qc.cache) >= qc.max_cache_size

\* ttl if ttl is not None else self.default_ttl
EffectiveTtl(qc, ttl) == IF ttl # NoTtl THEN ttl[1] ELSE qc.default_ttl

\* self.cache[cache_key] = {"result", "timestamp", "hits": 1, "last_hit_time"}
PutCache(qc, cache_key, result, t) ==
    [qc EXCEPT !.cache = DictPut(@, cache_key,
        [result |-> result, timestamp |-> t, hits |-> 1, last_hit_time |-> t])]

\* self.expiration_times[cache_key] = expiry_time
PutExpiry(qc, cache_key, expiry_time) ==
    [qc EXCEPT !.expiration_times = DictPut(@, cache_key, expiry_time)]

\* self.lru_keys.append(cache_key)
AppendLru(qc, cache_key) == [qc EXCEPT !.lru_keys = Append(@, cache_key)]

\* if cache_key in self.lru_keys: remove; then append
TouchLru(qc, cache_key) == AppendLru(DelLru(qc, cache_key), cache_key)

set(qc, cache_key, result, ttl, t) ==
    LET q1 == IF CacheFull(qc) THEN _remove_lru_item(qc) ELSE qc
        expiry_time == t + EffectiveTtl(qc, ttl)
    IN  TouchLru(PutExpiry(PutCache(q1, cache_key, result, t), cache_key, expiry_time),
                 cache_key)

\* expiry = self.expiration_times.get(cache_key, time.time() + self.default_ttl)
ExpiryOf(qc, cache_key, t) ==
    IF cache_key \in DOMAIN qc.expiration_times
    THEN qc.expiration_times[cache_key] ELSE t + qc.default_ttl

\* A variant that still serves an entry at the instant it expires (<= instead of <).
FreshAtExpiry(qc, cache_key, t) == t <= ExpiryOf(qc, cache_key, t)

\* if time.time() < expiry
Fresh(qc, cache_key, t) == t < ExpiryOf(qc, cache_key, t)

\* A variant with a sliding expiry: a hit also restarts the entry's TTL.
HitStatsSliding(qc, cache_key, t) ==
    [qc EXCEPT !.cache[cache_key].hits = @ + 1,
               !.cache[cache_key].last_hit_time = t,
               !.expiration_times = DictPut(@, cache_key, t + qc.default_ttl)]

\* cache_item["hits"] += 1; cache_item["last_hit_time"] = time.time()
HitStats(qc, cache_key, t) ==
    [qc EXCEPT !.cache[cache_key].hits = @ + 1,
               !.cache[cache_key].last_hit_time = t]

\* returns [qc: the object after the call, ret: (result, hit)]
get(qc, cache_key, t) ==
    IF cache_key \in DOMAIN qc.cache
    THEN IF Fresh(qc, cache_key, t)
         THEN [qc  |-> TouchLru(HitStats(qc, cache_key, t), cache_key),
               ret |-> <<qc.cache[cache_key].result, TRUE>>]
         ELSE [qc  |-> _remove_item(qc, cache_key), ret |-> <<None, FALSE>>]
    ELSE [qc |-> qc, ret |-> <<None, FALSE>>]

clear(qc) ==
    [qc EXCEPT !.cache = EmptyDict, !.expiration_times = EmptyDict, !.lru_keys = <<>>]

\* [k for k, v in self.expiration_times.items() if current_time > v]
ExpiredKeys(qc, current_time) ==
    {k \in DOMAIN qc.expiration_times : current_time > qc.expiration_times[k]}

RECURSIVE RemoveItems(_, _)
\* for key in expired_keys: self._remove_item(key)
RemoveItems(qc, keys) ==
    IF keys = {} THEN qc
    ELSE LET k == CHOOSE k \in keys : TRUE
         IN  RemoveItems(_remove_item(qc, k), keys \ {k})

\* returns [qc: the object after the call, ret: len(expired_keys)]
cleanup_expired(qc, t) ==
    LET expired_keys == ExpiredKeys(qc, t)
    IN  [qc |-> RemoveItems(qc, expired_keys), ret |-> Cardinality(expired_keys)]

(***************************************************************************)
(* Strings.  A query is a sequence of one-character strings.               *)
(***************************************************************************)
LowerCase == <<"a", "b", "c", "d", "e", "f", "g", "h", "i", "j", "k", "l", "m",
               "n", "o", "p", "q", "r", "s", "t", "u", "v", "w", "x", "y", "z">>
UpperCase == <<"A", "B", "C", "D", "E", "F", "G", "H", "I", "J", "K", "L", "M",
               "N", "O", "P", "Q", "R", "S", "T", "U", "V", "W", "X", "Y", "Z">>
Whitespace == {" ", "\t", "\n"}

CharUpper(c) ==
    IF \E i \in DOMAIN LowerCase : LowerCase[i] = c
    THEN UpperCase[CHOOSE i \in DOMAIN LowerCase : LowerCase[i] = c] ELSE c

CharLower(c) ==
    IF \E i \in DOMAIN UpperCase : UpperCase[i] = c
    THEN LowerCase[CHOOSE i \in DOMAIN UpperCase : UpperCase[i] = c] ELSE c

\* str.upper(), str.lower()
Upper(str) == [i \in DOMAIN str |-> CharUpper(str[i])]
Lower(str) == [i \in DOMAIN str |-> CharLower(str[i])]

RECURSIVE LStrip(_)
LStrip(str) ==
    IF str # <<>> /\ Head(str) \in Whitespace THEN LStrip(Tail(str)) ELSE str

RECURSIVE RStrip(_)
RStrip(str) ==
    IF str # <<>> /\ str[Len(str)] \in Whitespace
    THEN RStrip(SubSeq(str, 1, Len(str) - 1)) ELSE str

\* str.strip()
Strip(str) == RStrip(LStrip(str))

\* str.startswith(prefix)
StartsWith(str, prefix) ==
    Len(prefix) <= Len(str) /\ SubSeq(str, 1, Len(prefix)) = prefix

RECURSIVE CollapseSpaces(_)
\* " ".join(str.split()) of a stripped string: every whitespace run becomes one space
CollapseSpaces(str) ==
    IF str = <<>> THEN <<>>
    ELSE IF Head(str) \in Whitespace
         THEN <<" ">> \o CollapseSpaces(LStrip(str))
         ELSE <<Head(str)>> \o CollapseSpaces(Tail(str))

\* " ".join(query.split()).lower()
Normalize(query) == Lower(CollapseSpaces(Strip(query)))

SELECT == <<"S", "E", "L", "E", "C", "T">>
SELECT_SQLITE_ == SELECT \o <<" ", "S", "Q", "L", "I", "T", "E", "_">>

\* query.strip().upper().startswith("SELECT")
IsSelect(query) == StartsWith(Upper(Strip(query)), SELECT)

\* query.strip().upper().startswith("SELECT SQLITE_")
IsMetadata(query) == StartsWith(Upper(Strip(query)), SELECT_SQLITE_)

(***************************************************************************)
(* Requests (api/types.py, QueryRequest).                                  *)
(***************************************************************************)
Queries ==
    { <<"S", "E", "L", "E", "C", "T", " ", "1">>,                    \* SELECT 1
      <<"s", "e", "l", "e", "c", "t", " ", " ", "2">>,               \* select  2
      <<"S", "E", "L", "E", "C", "T", " ", "s", "q", "l", "i", "t", "e", "_", "v">>,
      <<"I", "N", "S", "E", "R", "T">> }

DbNames == {"default"}
NoParams == <<>>
Params == {NoParams}

\* The TTLs requests carry in Spec: absent, and 0 .. MaxTtl.
ReqTtls == {NoTtl} \cup {<<n>> : n \in 0 .. MaxTtl}

\* cache_ttl is read only when the result is stored (a SELECT that is no metadata
\* query), so the other requests are taken with cache_ttl absent.
Requests ==
    {r \in [query : Queries, params : Params, db_name : DbNames, cache_ttl : ReqTtls,
            force_refresh : BOOLEAN] :
        (~IsSelect(r.query) \/ IsMetadata(r.query)) => r.cache_ttl = NoTtl}

\* The database names of the model, and the characters of each.
KeyDb == "k"
KeyDbColon == "k:select 1 --"

Spelling(name) ==
    CASE name = "" -> <<>>
      [] name = "default" -> <<"d", "e", "f", "a", "u", "l", "t">>
      [] name = "sales" -> <<"s", "a", "l", "e", "s">>
      [] name = "no-db" -> <<"n", "o", "-", "d", "b">>
      [] name = KeyDb -> <<"k">>
      [] name = KeyDbColon -> <<"k", ":", "s", "e", "l", "e", "c", "t", " ", "1", " ", "-", "-">>

\* params is None (<<>>) or <<d>> for a dict d, which maps one-letter names to
\* integers written in digits.
Ord(c) == CHOOSE i \in DOMAIN LowerCase : LowerCase[i] = c

RECURSIVE Sorted(_)
\* sorted(d.keys())
Sorted(S) ==
    IF S = {} THEN <<>>
    ELSE LET k == CHOOSE x \in S : \A y \in S : Ord(x) <= Ord(y)
         IN  <<k>> \o Sorted(S \ {k})

RECURSIVE Items(_, _)
\* The items '"k": v' of d for the keys ks, separated by ', '.
Items(d, ks) ==
    IF ks = <<>> THEN <<>>
    ELSE <<"\"", Head(ks), "\"", ":", " ">> \o d[Head(ks)]
         \o (IF Tail(ks) = <<>> THEN <<>> ELSE <<",", " ">> \o Items(d, Tail(ks)))

\* json.dumps(d, sort_keys=True)
Dumps(d) == <<"{">> \o Items(d, Sorted(DOMAIN d)) \o <<"}">>

\* json.dumps(params, sort_keys=True) if params else "": None and the empty dict are
\* both false.
ParamsStr(params) ==
    IF params # NoParams /\ DOMAIN params[1] # {} THEN Dumps(params[1]) ELSE <<>>

\* The key is the MD5 digest of f"{db_name}:{query_normalized}:{params_str}"; the
\* digest is taken to be injective, so the key is the string it is computed from.
generate_cache_key(query, params, db_name) ==
    Spelling(db_name) \o <<":">> \o Normalize(query) \o <<":">> \o ParamsStr(params)

(***************************************************************************)
(* The service (main.py).                                                  *)
(***************************************************************************)
\* settings.MAX_WORKERS (30), the size of the thread pool, scaled to the model.
MAX_WORKERS == 2

Ids == 1..MaxSubmissions
Sweeper == 0
Threads == Ids \cup {Sweeper}

\* Optional values: <<>> is absent, <<x>> is x.
Absent == <<>>
Some(x) == <<x>>

\* query_results[query_id] = {"status": "pending"}
PendingTask ==
    [status |-> "pending", result |-> Absent, error |-> Absent, cached |-> Absent,
     execution_time |-> Absent]

\* {"status": "completed", "result": ..., "cached": ..., "execution_time": ...}
CompletedTask(result, cached, execution_time) ==
    [status |-> "completed", result |-> Some(result), error |-> Absent,
     cached |-> Some(cached), execution_time |-> Some(execution_time)]

\* {"status": "error", "error": str(e), "execution_time": ...}
ErrorTask(error) ==
    [status |-> "error", result |-> Absent, error |-> Some(error), cached |-> Absent,
     execution_time |-> Some("elapsed")]

\* [dict(row) for row in cursor.fetchall()]: the rows the engine returns for a
\* query depend on the query and on the writes committed to the database so far.
Rows(query, db_name) == [rows_of |-> Normalize(query), version |-> db_data[db_name]]

\* [{"rows_affected": cursor.rowcount}]
RowsAffected == [rows_affected |-> 1]

NoLocals == [conn |-> 0, val |-> None, exp |-> 0, rmkey |-> None, rmret |-> None,
             keys |-> {}, exts |-> {}, ext |-> None, econn |-> 0, got |-> {}]

KeyOf(q) == generate_cache_key(req[q].query, req[q].params, req[q].db_name)

\* The pool's threads that are inside execute_query.
WorkerPcs ==
    {"get", "get_lru_test", "get_lru_remove", "get_lru_append", "conn", "conn_new",
     "conn_ext", "conn_ext_new", "conn_load", "ext_test", "ext_append", "conn_reg",
     "exec", "executing", "commit", "committing", "set_full", "set_pop", "set_put",
     "set_expiry", "set_lru_test", "set_lru_remove", "set_lru_append",
     "rm_cache", "rm_expiry", "rm_lru_test", "rm_lru_remove"}
Running == {q \in Ids : pc[q] \in WorkerPcs}

\* The event loop runs a handler only when it is not inside cleanup_expired.
LoopFree == pc[Sweeper] \in {"idle", "dead"}


Goto(t, label) == pc' = [pc EXCEPT ![t] = label]

\* path records that submission q's worker found a fresh cache entry ("hit"), obtained
\* a connection handle ("handle"), entered an engine call ("engine"), called
\* query_cache.set ("set").
Mark(q, what) == path' = [path EXCEPT ![q] = @ \cup {what}]

\* The one write of a terminal Task by submission q's worker.
WriteTask(q, task) ==
    /\ query_results' = DictPut(query_results, q, task)
    /\ writes' = [writes EXCEPT ![q] = @ + 1]

\* A variant without the handler of execute_query: the exception ends the worker and
\* the Task stays as it was.
RaiseUncaught(t, error) ==
    /\ loc' = [loc EXCEPT ![t] = NoLocals]
    /\ Goto(t, IF t = Sweeper THEN "dead" ELSE "done")
    /\ UNCHANGED task_vars

\* An exception in thread t: execute_query's handler records it in the Task and the
\* worker is done; in the sweeper it ends periodic_cache_cleanup.
Raise(t, error) ==
    /\ loc' = [loc EXCEPT ![t] = NoLocals]
    /\ IF t = Sweeper
       THEN /\ Goto(t, "dead")
            /\ UNCHANGED task_vars
       ELSE /\ WriteTask(t, ErrorTask(error))
            /\ Goto(t, "done")

(* run_query, up to the await: the Task is created pending and the job is handed to
   the executor. *)
Submit(q, r) ==
    /\ LoopFree
    /\ pc[q] = "new"
    /\ \A p \in Ids : p < q => pc[p] # "new"
    /\ req' = DictPut(req, q, r)
    /\ query_results' = DictPut(query_results, q, PendingTask)
    /\ queue' = Append(queue, q)
    /\ Goto(q, "queued")
    /\ UNCHANGED <<cache_vars, store_vars, writes, response, polled, created, loc>>
    /\ UNCHANGED path

\* A variant that starts a job whether or not a thread is free.
StartJobUnbounded(q) ==
    /\ queue # <<>> /\ q = Head(queue)
    /\ queue' = Tail(queue)
    /\ Goto(q, IF req[q].force_refresh THEN "conn" ELSE "get")
    /\ UNCHANGED <<cache_vars, task_vars, store_vars, req, response, polled, created, loc>>
    /\ UNCHANGED path

(* A free pool thread takes the oldest job and enters execute_query. *)
StartJob(q) ==
    /\ queue # <<>> /\ q = Head(queue)
    /\ Cardinality(Running) < max_workers
    /\ queue' = Tail(queue)
    /\ Goto(q, IF req[q].force_refresh THEN "conn" ELSE "get")
    /\ UNCHANGED <<cache_vars, task_vars, store_vars, req, response, polled, created, loc>>
    /\ UNCHANGED path

(* query_cache.get, first part: the lookup, the expiry test and the statistics. *)
GetLookup(q) ==
    /\ pc[q] = "get"
    /\ LET k == KeyOf(q)
       IN  IF k \notin DOMAIN query_cache.cache
           THEN /\ Goto(q, "conn")
                /\ UNCHANGED <<query_cache, loc, path>>
           ELSE IF Fresh(query_cache, k, now)
                THEN /\ query_cache.cache[k].hits < MaxHits
                     /\ query_cache' = HitStats(query_cache, k, now)
                     /\ loc' = [loc EXCEPT ![q].val = query_cache.cache[k].result]
                     /\ Mark(q, "hit")
                     /\ Goto(q, "get_lru_test")
                ELSE /\ loc' = [loc EXCEPT ![q].rmkey = k, ![q].rmret = "conn"]
                     /\ Goto(q, "rm_cache")
                     /\ UNCHANGED <<query_cache, path>>
    /\ UNCHANGED <<call_vars, task_vars, store_vars, io_vars, now>>

(* if cache_key in self.lru_keys (in get and in set) *)
LruTest(q, at, yes, no) ==
    /\ pc[q] = at
    /\ Goto(q, IF In(query_cache.lru_keys, KeyOf(q)) THEN yes ELSE no)
    /\ UNCHANGED <<cache_vars, task_vars, store_vars, io_vars, loc>>
    /\ UNCHANGED path

(* self.lru_keys.remove(cache_key): ValueError when the key is no longer there *)
LruRemove(q, at, next) ==
    /\ pc[q] = at
    /\ IF In(query_cache.lru_keys, KeyOf(q))
       THEN /\ query_cache' = DelLru(query_cache, KeyOf(q))
            /\ Goto(q, next)
            /\ UNCHANGED <<task_vars, loc>>
       ELSE /\ Raise(q, "ValueError")
            /\ UNCHANGED query_cache
    /\ UNCHANGED <<call_vars, store_vars, io_vars, now>>
    /\ UNCHANGED path

(* self.lru_keys.append(cache_key); the call returns and execute_query writes the
   completed Task. *)
LruAppend(q, at, cached) ==
    /\ pc[q] = at
    /\ query_cache' = AppendLru(query_cache, KeyOf(q))
    /\ WriteTask(q, CompletedTask(loc[q].val, cached, IF cached THEN "0.0" ELSE "elapsed"))
    /\ loc' = [loc EXCEPT ![q] = NoLocals]
    /\ Goto(q, "done")
    /\ UNCHANGED <<call_vars, store_vars, io_vars, now>>
    /\ UNCHANGED path

GetLruTest(q) == LruTest(q, "get_lru_test", "get_lru_remove", "get_lru_append")
GetLruRemove(q) == LruRemove(q, "get_lru_remove", "get_lru_append")

\* A variant of the cache-hit path without its return: the Task is written and
\* execute_query goes on to the database.
GetLruAppendNoReturn(q) ==
    /\ pc[q] = "get_lru_append"
    /\ query_cache' = AppendLru(query_cache, KeyOf(q))
    /\ WriteTask(q, CompletedTask(loc[q].val, TRUE, "0.0"))
    /\ Goto(q, "conn")
    /\ UNCHANGED <<now, call_vars, store_vars, io_vars, loc>>
    /\ UNCHANGED path

GetLruAppend(q) == LruAppend(q, "get_lru_append", TRUE)

(* get_db_connection: the registry lookup. *)
Connect(q) ==
    /\ pc[q] = "conn"
    /\ IF req[q].db_name \in DOMAIN db_connections
       THEN /\ loc' = [loc EXCEPT ![q].conn = db_connections[req[q].db_name]]
            /\ Mark(q, "handle")
            /\ Goto(q, "exec")
       ELSE /\ Goto(q, "conn_new")
            /\ UNCHANGED <<loc, path>>
    /\ UNCHANGED <<cache_vars, task_vars, store_vars, io_vars>>

\* sqlean.connect(db_path): a handle is opened for the name, and SQLite creates the
\* database file when there is none.
Open(by, name) ==
    /\ nconn' = nconn + 1
    /\ opened' = Append(opened, [by |-> by, name |-> name, existed |-> name \in db_files])
    /\ db_files' = db_files \cup {name}

\* db_connections[db_name] = conn
Register(name, conn) == db_connections' = DictPut(db_connections, name, conn)

\* str.endswith(suffix)
EndsWith(str, suffix) ==
    Len(suffix) <= Len(str) /\ SubSeq(str, Len(str) - Len(suffix) + 1, Len(str)) = suffix

\* os.path.splitext(name)[0]
Stem(name) ==
    LET dots == {i \in DOMAIN name : name[i] = "." /\ i > 1}
    IN  IF dots = {} THEN name
        ELSE SubSeq(name, 1, (CHOOSE i \in dots : \A j \in dots : j <= i) - 1)

\* get_extension_file_pattern() on Linux
ExtensionPattern == <<"*", ".", "s", "o">>

RECURSIVE Listing(_)
\* The elements of a set as a list, in the order the directory is read.
Listing(S) ==
    IF S = {} THEN <<>>
    ELSE LET x == CHOOSE y \in S : TRUE IN <<x>> \o Listing(S \ {x})

\* [ext for ext in os.listdir(settings.EXTENSIONS_DIR) if ext.endswith(pattern)]
ListedExtensions == Listing({f \in extension_files : EndsWith(f, ExtensionPattern)})

\* db_extensions.get(db_name, [])
ExtensionsOf(name) == IF name \in DOMAIN db_extensions THEN db_extensions[name] ELSE <<>>

\* db_extensions[db_name] = [...]
ResetExtensions(name) == db_extensions' = DictPut(db_extensions, name, ListedExtensions)

(* get_db_connection: a new handle is opened, unless opening it fails.  With no
   shared library to load, load_all_extensions has nothing to do and the handle is
   registered under the name and returned. *)
ConnectNew(q, ok) ==
    /\ pc[q] = "conn_new"
    /\ IF ok
       THEN /\ Open(q, req[q].db_name)
            /\ IF extension_files = {}
               THEN /\ loc' = [loc EXCEPT ![q].conn = nconn + 1]
                    /\ Register(req[q].db_name, nconn + 1)
                    /\ ResetExtensions(req[q].db_name)
                    /\ Mark(q, "handle")
                    /\ Goto(q, "exec")
               ELSE /\ loc' = [loc EXCEPT ![q].conn = nconn + 1,
                                          ![q].exts = extension_files]
                    /\ Goto(q, "conn_ext")
                    /\ UNCHANGED <<db_connections, db_extensions, path>>
            /\ UNCHANGED <<task_vars, loaded, ext_calls>>
       ELSE /\ Raise(q, "sqlean.Error")
            /\ UNCHANGED <<conn_vars, ext_vars, path>>
    /\ UNCHANGED <<cache_vars, io_vars, env_vars>>

(* load_all_extensions: the next discovered file, if any, is passed to load_extension,
   whose get_db_connection(db_name, False) looks the name up in the registry. *)
ConnectExt(q) ==
    /\ pc[q] = "conn_ext"
    /\ IF loc[q].exts = {}
       THEN /\ Goto(q, "conn_reg")
            /\ UNCHANGED loc
       ELSE \E f \in loc[q].exts :
            IF req[q].db_name \in DOMAIN db_connections
            THEN /\ loc' = [loc EXCEPT ![q].exts = @ \ {f}, ![q].ext = Stem(f),
                                       ![q].econn = db_connections[req[q].db_name]]
                 /\ Goto(q, "conn_load")
            ELSE /\ loc' = [loc EXCEPT ![q].exts = @ \ {f}, ![q].ext = Stem(f)]
                 /\ Goto(q, "conn_ext_new")
    /\ UNCHANGED <<cache_vars, task_vars, store_vars, io_vars, path>>

(* The nested call opens a handle of its own and registers it under the name; when
   that fails, load_all_extensions prints the error and goes on. *)
ConnectExtNew(q, ok) ==
    /\ pc[q] = "conn_ext_new"
    /\ IF ok
       THEN /\ Open(q, req[q].db_name)
            /\ Register(req[q].db_name, nconn + 1)
            /\ ResetExtensions(req[q].db_name)
            /\ loc' = [loc EXCEPT ![q].econn = nconn + 1]
            /\ Goto(q, "conn_load")
            /\ UNCHANGED path
       ELSE /\ Mark(q, "loadfail")
            /\ Goto(q, "conn_ext")
            /\ UNCHANGED <<conn_vars, db_extensions, loc>>
    /\ UNCHANGED <<cache_vars, task_vars, env_vars, io_vars, loaded, ext_calls>>

\* A variant without the handler of load_all_extensions: the failure to load an
\* extension ends get_db_connection and reaches the handler of execute_query.
ConnectLoadUncaught(q, ok) ==
    /\ pc[q] = "conn_load"
    /\ IF ok
       THEN /\ loaded' = loaded \cup {<<loc[q].econn, loc[q].ext>>}
            /\ Goto(q, "ext_test")
            /\ UNCHANGED <<task_vars, loc, path>>
       ELSE /\ Raise(q, "Error loading extension")
            /\ Mark(q, "loadfail")
            /\ UNCHANGED loaded
    /\ UNCHANGED <<cache_vars, conn_vars, env_vars, io_vars, db_extensions, ext_calls>>

(* load_extension: conn.load_extension(extension_path) on the handle the nested call
   returned; when it fails, load_all_extensions prints the error and goes on. *)
ConnectLoad(q, ok) ==
    /\ pc[q] = "conn_load"
    /\ IF ok
       THEN /\ loaded' = loaded \cup {<<loc[q].econn, loc[q].ext>>}
            /\ Goto(q, "ext_test")
            /\ UNCHANGED path
       ELSE /\ Mark(q, "loadfail")
            /\ Goto(q, "conn_ext")
            /\ UNCHANGED loaded
    /\ UNCHANGED <<cache_vars, task_vars, conn_vars, env_vars, io_vars, db_extensions,
                   ext_calls, loc>>

(* load_extension: if extension_name not in db_extensions.get(db_name, []); when it
   is there already the call returns True. *)
ExtTest(q) ==
    /\ pc[q] = "ext_test"
    /\ IF In(ExtensionsOf(req[q].db_name), loc[q].ext)
       THEN /\ ext_calls' = ext_calls \cup {<<req[q].db_name, loc[q].ext>>}
            /\ loc' = [loc EXCEPT ![q].got = @ \cup {loc[q].ext}]
            /\ Goto(q, "conn_ext")
       ELSE /\ Goto(q, "ext_append")
            /\ UNCHANGED <<ext_calls, loc>>
    /\ UNCHANGED <<cache_vars, task_vars, conn_vars, env_vars, io_vars, db_extensions,
                   loaded, path>>

(* load_extension: db_extensions[db_name].append(extension_name); return True *)
ExtAppend(q) ==
    /\ pc[q] = "ext_append"
    /\ db_extensions' = DictPut(db_extensions, req[q].db_name,
                                Append(ExtensionsOf(req[q].db_name), loc[q].ext))
    /\ ext_calls' = ext_calls \cup {<<req[q].db_name, loc[q].ext>>}
    /\ loc' = [loc EXCEPT ![q].got = @ \cup {loc[q].ext}]
    /\ Goto(q, "conn_ext")
    /\ UNCHANGED <<cache_vars, task_vars, conn_vars, env_vars, io_vars, loaded, path>>

(* Back in the outer call: the handle it opened is registered under the name, the
   recorded extensions are set to the listing, and what the registry holds is
   returned. *)
ConnectRegister(q, ok) ==
    /\ pc[q] = "conn_reg"
    /\ IF ok
       THEN /\ Register(req[q].db_name, loc[q].conn)
            /\ ResetExtensions(req[q].db_name)
            /\ loc' = [loc EXCEPT ![q].ext = None, ![q].econn = 0]
            /\ Mark(q, "handle")
            /\ Goto(q, "exec")
            /\ UNCHANGED task_vars
       ELSE /\ Raise(q, "sqlean.Error")
            /\ UNCHANGED <<db_connections, db_extensions, path>>
    /\ UNCHANGED <<cache_vars, io_vars, env_vars, nconn, opened, db_files, loaded,
                   ext_calls>>

(* conn.cursor() and the entry into cursor.execute(query), unless the driver refuses. *)
ExecStart(q, ok) ==
    /\ pc[q] = "exec"
    /\ IF ok
       THEN /\ Goto(q, "executing")
            /\ Mark(q, "engine")
            /\ UNCHANGED <<task_vars, loc>>
       ELSE /\ Raise(q, "sqlean.Error")
            /\ UNCHANGED path
    /\ UNCHANGED <<cache_vars, store_vars, io_vars>>

(* cursor.execute returns or raises; a SELECT's rows are fetched, and those of a
   metadata query are written to the Task at once. *)
ExecEnd(q, ok) ==
    /\ pc[q] = "executing"
    /\ IF ~ok
       THEN Raise(q, "sqlean.Error")
       ELSE IF IsSelect(req[q].query)
            THEN IF IsMetadata(req[q].query)
                 THEN /\ WriteTask(q, CompletedTask(Rows(req[q].query, req[q].db_name),
                                                    FALSE, "elapsed"))
                      /\ loc' = [loc EXCEPT ![q] = NoLocals]
                      /\ Goto(q, "done")
                 ELSE /\ loc' = [loc EXCEPT ![q].val = Rows(req[q].query, req[q].db_name)]
                      /\ Goto(q, "set_full")
                      /\ UNCHANGED task_vars
            ELSE /\ Goto(q, "commit")
                 /\ UNCHANGED <<task_vars, loc>>
    /\ UNCHANGED <<cache_vars, store_vars, io_vars>>
    /\ UNCHANGED path

(* conn.commit() is entered. *)
CommitStart(q) ==
    /\ pc[q] = "commit"
    /\ db_data[req[q].db_name] < MaxWrites
    /\ Goto(q, "committing")
    /\ UNCHANGED <<cache_vars, task_vars, store_vars, io_vars, loc>>
    /\ UNCHANGED path

\* A variant that stores the result of a modification in the cache like a read's.
CommitEndCaching(q, ok) ==
    /\ pc[q] = "committing"
    /\ IF ok
       THEN /\ db_data' = [db_data EXCEPT ![req[q].db_name] = @ + 1]
            /\ loc' = [loc EXCEPT ![q].val = RowsAffected]
            /\ Goto(q, "set_full")
            /\ UNCHANGED task_vars
       ELSE /\ Raise(q, "sqlean.Error")
            /\ UNCHANGED db_data
    /\ UNCHANGED <<cache_vars, io_vars, conn_vars, ext_vars, extension_files, max_workers>>
    /\ UNCHANGED path

(* conn.commit() returns or raises. *)
CommitEnd(q, ok) ==
    /\ pc[q] = "committing"
    /\ IF ok
       THEN /\ db_data' = [db_data EXCEPT ![req[q].db_name] = @ + 1]
            /\ WriteTask(q, CompletedTask(RowsAffected, FALSE, "elapsed"))
            /\ loc' = [loc EXCEPT ![q] = NoLocals]
            /\ Goto(q, "done")
       ELSE /\ Raise(q, "sqlean.Error")
            /\ UNCHANGED db_data
    /\ UNCHANGED <<cache_vars, io_vars, conn_vars, ext_vars, extension_files, max_workers>>
    /\ UNCHANGED path

(* query_cache.set: if len(self.cache) >= self.max_cache_size *)
SetFull(q) ==
    /\ pc[q] = "set_full"
    /\ Goto(q, IF CacheFull(query_cache) THEN "set_pop" ELSE "set_put")
    /\ Mark(q, "set")
    /\ UNCHANGED <<cache_vars, task_vars, store_vars, io_vars, loc>>

(* _remove_lru_item: if self.lru_keys: lru_key = self.lru_keys.pop(0) *)
SetPop(q) ==
    /\ pc[q] = "set_pop"
    /\ IF query_cache.lru_keys # <<>>
       THEN /\ query_cache' = PopLru(query_cache)
            /\ loc' = [loc EXCEPT ![q].rmkey = PopLruKey(query_cache),
                                  ![q].rmret = "set_put"]
            /\ Goto(q, "rm_cache")
       ELSE /\ Goto(q, "set_put")
            /\ UNCHANGED <<query_cache, loc>>
    /\ UNCHANGED <<call_vars, task_vars, store_vars, io_vars, now>>
    /\ UNCHANGED path

(* expiry_time = time.time() + ttl; self.cache[cache_key] = {...} *)
SetPut(q) ==
    /\ pc[q] = "set_put"
    /\ query_cache' = PutCache(query_cache, KeyOf(q), loc[q].val, now)
    /\ loc' = [loc EXCEPT ![q].exp = now + EffectiveTtl(query_cache, req[q].cache_ttl)]
    /\ Goto(q, "set_expiry")
    /\ UNCHANGED <<call_vars, task_vars, store_vars, io_vars, now>>
    /\ UNCHANGED path

(* self.expiration_times[cache_key] = expiry_time *)
SetExpiry(q) ==
    /\ pc[q] = "set_expiry"
    /\ query_cache' = PutExpiry(query_cache, KeyOf(q), loc[q].exp)
    /\ Goto(q, "set_lru_test")
    /\ UNCHANGED <<call_vars, task_vars, store_vars, io_vars, now, loc>>
    /\ UNCHANGED path

SetLruTest(q) == LruTest(q, "set_lru_test", "set_lru_remove", "set_lru_append")
SetLruRemove(q) == LruRemove(q, "set_lru_remove", "set_lru_append")
SetLruAppend(q) == LruAppend(q, "set_lru_append", FALSE)

(* _remove_item, statement by statement, in a worker or in the sweeper. *)
RmCache(t) ==
    /\ pc[t] = "rm_cache"
    /\ query_cache' = DelCache(query_cache, loc[t].rmkey)
    /\ Goto(t, "rm_expiry")
    /\ UNCHANGED <<call_vars, task_vars, store_vars, io_vars, now, loc>>
    /\ UNCHANGED path

RmExpiry(t) ==
    /\ pc[t] = "rm_expiry"
    /\ query_cache' = DelExpiry(query_cache, loc[t].rmkey)
    /\ Goto(t, "rm_lru_test")
    /\ UNCHANGED <<call_vars, task_vars, store_vars, io_vars, now, loc>>
    /\ UNCHANGED path

RmLruTest(t) ==
    /\ pc[t] = "rm_lru_test"
    /\ Goto(t, IF In(query_cache.lru_keys, loc[t].rmkey) THEN "rm_lru_remove"
               ELSE loc[t].rmret)
    /\ UNCHANGED <<cache_vars, task_vars, store_vars, io_vars, loc>>
    /\ UNCHANGED path

RmLruRemove(t) ==
    /\ pc[t] = "rm_lru_remove"
    /\ IF In(query_cache.lru_keys, loc[t].rmkey)
       THEN /\ query_cache' = DelLru(query_cache, loc[t].rmkey)
            /\ Goto(t, loc[t].rmret)
            /\ UNCHANGED <<task_vars, loc>>
       ELSE /\ Raise(t, "ValueError")
            /\ UNCHANGED query_cache
    /\ UNCHANGED <<now, call_vars, store_vars, io_vars>>
    /\ UNCHANGED path

(* periodic_cache_cleanup wakes up: cleanup_expired collects the expired keys. *)
SweepStart ==
    /\ pc[Sweeper] = "idle"
    /\ ExpiredKeys(query_cache, now) # {}
    /\ loc' = [loc EXCEPT ![Sweeper].keys = ExpiredKeys(query_cache, now)]
    /\ Goto(Sweeper, "sweep")
    /\ UNCHANGED <<cache_vars, task_vars, store_vars, io_vars>>
    /\ UNCHANGED path

(* for key in expired_keys: self._remove_item(key); then back to sleep. *)
SweepNext ==
    /\ pc[Sweeper] = "sweep"
    /\ IF loc[Sweeper].keys = {}
       THEN /\ Goto(Sweeper, "idle")
            /\ UNCHANGED loc
       ELSE \E k \in loc[Sweeper].keys :
            /\ loc' = [loc EXCEPT ![Sweeper].keys = @ \ {k}, ![Sweeper].rmkey = k,
                                  ![Sweeper].rmret = "sweep"]
            /\ Goto(Sweeper, "rm_cache")
    /\ UNCHANGED <<cache_vars, task_vars, store_vars, io_vars>>
    /\ UNCHANGED path

\* What run_query and get_query_status answer for a Task.
ResponseOf(q, result_data) ==
    [id |-> q, status |-> result_data.status,
     cached |-> IF result_data.cached # Absent THEN result_data.cached[1] ELSE FALSE,
     result |-> result_data.result, error |-> result_data.error,
     execution_time |-> result_data.execution_time]

(* run_query, after the await: the worker has finished; the cleanup is scheduled and
   the response is returned to the caller. *)
Respond(q) ==
    /\ LoopFree
    /\ pc[q] = "done"
    /\ response' = DictPut(response, q, ResponseOf(q, query_results[q]))
    /\ req' = DictDel(req, q)
    /\ Goto(q, "responded")
    /\ UNCHANGED <<cache_vars, task_vars, store_vars, queue, polled, created, loc>>
    /\ UNCHANGED path

\* A variant of cleanup that empties query_results.
CleanupAll(q) ==
    /\ LoopFree
    /\ pc[q] = "responded"
    /\ query_results' = EmptyDict
    /\ Goto(q, "cleaned")
    /\ path' = [path EXCEPT ![q] = {}]
    /\ UNCHANGED <<cache_vars, store_vars, io_vars, writes, loc>>

(* run_query.cleanup: after the retention delay the Task is deleted. *)
Cleanup(q) ==
    /\ LoopFree
    /\ pc[q] = "responded"
    /\ query_results' = IF q \in DOMAIN query_results THEN DictDel(query_results, q)
                        ELSE query_results
    /\ Goto(q, "cleaned")
    /\ path' = [path EXCEPT ![q] = {}]
    /\ UNCHANGED <<cache_vars, store_vars, io_vars, writes, loc>>

\* A variant that answers for an id without a Task as for a pending one.
get_query_statusDefault(q) ==
    IF q \notin DOMAIN query_results THEN Some(ResponseOf(q, PendingTask))
    ELSE Some(ResponseOf(q, query_results[q]))

\* get_query_status(query_id): the answer in the current state; Absent is the 404.
get_query_status(q) ==
    IF q \notin DOMAIN query_results THEN Absent
    ELSE Some(ResponseOf(q, query_results[q]))

\* No call of get_query_status yet.
NoPoll == [id |-> 0, answer |-> Absent]
NoCreate == [name |-> None, status |-> 0]

(* A client polls get_query_status(query_id), for any id: a read, nothing changes. *)
Status(q) ==
    /\ LoopFree
    /\ UNCHANGED vars

(* The same call, with its answer kept in polled. *)
StatusCall(q) ==
    /\ LoopFree
    /\ polled' = [id |-> q, answer |-> get_query_status(q)]
    /\ UNCHANGED <<cache_vars, task_vars, store_vars, req, queue, response, created, pc, loc,
                   path>>

Tick ==
    /\ now < MaxClock
    /\ now' = now + 1
    /\ UNCHANGED <<query_cache, call_vars, sys_vars>>

(***************************************************************************)
(* CacheSpec: one QueryCache driven by whole calls, one at a time.         *)
(***************************************************************************)
Call(op, key, ttl, ret) ==
    [op |-> op, key |-> key, ttl |-> ttl, ret |-> ret,
     n |-> Cardinality(DOMAIN query_cache.cache),     \* entries before the call
     present |-> key \in DOMAIN query_cache.cache]    \* key had an entry before the call

\* The two call sequences of the LRU scenario, on a cache of capacity 2.
SetCall(k) == [op |-> "set", key |-> k, ttl |-> NoTtl]
GetCall(k) == [op |-> "get", key |-> k, ttl |-> NoTtl]
ScenarioFifo == <<SetCall("a"), SetCall("b"), SetCall("c")>>
ScenarioTouched == <<SetCall("a"), SetCall("b"), GetCall("a"), SetCall("c")>>

IsPrefix(s, u) == Len(s) <= Len(u) /\ SubSeq(u, 1, Len(s)) = s

Offtrack == <<[op |-> "other", key |-> None, ttl |-> NoTtl]>>

\* hist follows the calls while they are a prefix of a scenario.
Record(op, key, ttl) ==
    LET h == Append(hist, [op |-> op, key |-> key, ttl |-> ttl])
    IN  IF IsPrefix(h, ScenarioFifo) \/ IsPrefix(h, ScenarioTouched)
        THEN h ELSE Offtrack

\* stored after a call: the payloads set so far, of the keys that still have an entry.
Stored(qc, payloads) == [k \in DOMAIN qc.cache \cap DOMAIN payloads |-> payloads[k]]

Init ==
    /\ \E size \in 1..MaxCap : query_cache = QueryCache(size)
    /\ now = 0
    /\ last = [op |-> "init", key |-> None, ttl |-> NoTtl, ret |-> None, n |-> 0,
               present |-> FALSE]
    /\ hist = <<>>
    /\ stored = EmptyDict
    /\ query_results = EmptyDict
    /\ db_connections = EmptyDict
    /\ db_data = [d \in DbNames |-> 0]
    /\ nconn = 0
    /\ opened = <<>>
    /\ db_files = {}
    /\ extension_files = {}
    /\ max_workers = MAX_WORKERS
    /\ db_extensions = EmptyDict
    /\ loaded = {}
    /\ ext_calls = {}
    /\ req = EmptyDict
    /\ queue = <<>>
    /\ pc = [t \in Threads |-> IF t = Sweeper THEN "idle" ELSE "new"]
    /\ loc = [t \in Threads |-> NoLocals]
    /\ response = EmptyDict
    /\ polled = NoPoll
    /\ created = NoCreate
    /\ writes = [q \in Ids |-> 0]
    /\ path = [q \in Ids |-> {}]

CacheGet(k) ==
    LET r == get(query_cache, k, now)
    IN  /\ r.ret[2] => query_cache.cache[k].hits < MaxHits
        /\ query_cache' = r.qc
        /\ last' = Call("get", k, NoTtl, r.ret)
        /\ hist' = Record("get", k, NoTtl)
        /\ stored' = Stored(r.qc, stored)
        /\ UNCHANGED <<now, sys_vars>>

CacheSet(k, v, ttl) ==
    /\ query_cache' = set(query_cache, k, v, ttl, now)
    /\ last' = Call("set", k, ttl, None)
    /\ hist' = Record("set", k, ttl)
    /\ stored' = Stored(query_cache', DictPut(stored, k, v))
    /\ UNCHANGED <<now, sys_vars>>

CacheCleanup ==
    LET r == cleanup_expired(query_cache, now)
    IN  /\ query_cache' = r.qc
        /\ last' = Call("cleanup_expired", None, NoTtl, r.ret)
        /\ hist' = Offtrack
        /\ stored' = Stored(r.qc, stored)
        /\ UNCHANGED <<now, sys_vars>>

CacheClear ==
    /\ query_cache' = clear(query_cache)
    /\ last' = Call("clear", None, NoTtl, None)
    /\ hist' = <<>>
    /\ stored' = EmptyDict
    /\ UNCHANGED <<now, sys_vars>>

CacheTick ==
    /\ now < MaxTime
    /\ now' = now + 1
    /\ last' = Call("tick", None, NoTtl, None)
    /\ hist' = Offtrack
    /\ UNCHANGED <<query_cache, stored, sys_vars>>

CacheNext ==
    \/ \E k \in Keys : CacheGet(k)
    \/ \E k \in Keys, v \in Payloads, ttl \in Ttls : CacheSet(k, v, ttl)
    \/ CacheCleanup
    \/ CacheClear
    \/ CacheTick

CacheSpec == Init /\ [][CacheNext]_vars

(***************************************************************************)
(* Spec: the running service.                                              *)
(***************************************************************************)

Next ==
    \/ \E q \in Ids, r \in Requests : Submit(q, r)
    \/ \E q \in Ids : StartJob(q)
    \/ \E q \in Ids : GetLookup(q)
    \/ \E q \in Ids : GetLruTest(q)
    \/ \E q \in Ids : GetLruRemove(q)
    \/ \E q \in Ids : GetLruAppend(q)
    \/ \E q \in Ids : Connect(q)
    \/ \E q \in Ids, ok \in BOOLEAN : ConnectNew(q, ok)
    \/ \E q \in Ids, ok \in BOOLEAN : ExecStart(q, ok)
    \/ \E q \in Ids, ok \in BOOLEAN : ExecEnd(q, ok)
    \/ \E q \in Ids : CommitStart(q)
    \/ \E q \in Ids, ok \in BOOLEAN : CommitEnd(q, ok)
    \/ \E q \in Ids : SetFull(q)
    \/ \E q \in Ids : SetPop(q)
    \/ \E q \in Ids : SetPut(q)
    \/ \E q \in Ids : SetExpiry(q)
    \/ \E q \in Ids : SetLruTest(q)
    \/ \E q \in Ids : SetLruRemove(q)
    \/ \E q \in Ids : SetLruAppend(q)
    \/ \E t \in Threads : RmCache(t)
    \/ \E t \in Threads : RmExpiry(t)
    \/ \E t \in Threads : RmLruTest(t)
    \/ \E t \in Threads : RmLruRemove(t)
    \/ SweepStart
    \/ SweepNext
    \/ \E q \in Ids : Respond(q)
    \/ \E q \in Ids : Cleanup(q)
    \/ \E q \in Ids : Status(q)
    \/ Tick

Spec == Init /\ [][Next]_vars

(***************************************************************************)
(* ApiSpec: the databases and the Tasks.  Requests name any database, a    *)
(* shared library may lie in EXTENSIONS_DIR, databases are created through *)
(* create_database and clients poll get_query_status.  The requests are    *)
(* a modification and a metadata query, so the cache stays empty and the   *)
(* sweeper idle.                                                           *)
(***************************************************************************)
ApiDbNames == {"default", "sales", "no-db"}

Digits == {"0", "1", "2", "3", "4", "5", "6", "7", "8", "9"}
Alnum == {LowerCase[i] : i \in DOMAIN LowerCase} \cup {UpperCase[i] : i \in DOMAIN UpperCase}
         \cup Digits

\* str.isalnum()
isalnum(str) == str # <<>> /\ \A i \in DOMAIN str : str[i] \in Alnum

INSERT == <<"I", "N", "S", "E", "R", "T">>
ApiQueries == {INSERT, SELECT_SQLITE_ \o <<"v">>}

ApiRequests ==
    [query : ApiQueries, params : Params, db_name : ApiDbNames, cache_ttl : {NoTtl},
     force_refresh : {FALSE}]

ExtA == <<"a", ".", "s", "o">>
ExtB == <<"b", ".", "s", "o">>
ExtensionFiles == {ExtA, ExtB}

(* create_database: the name is validated and init_db creates the database file,
   unless it fails; no handle is registered. *)
CreateDatabase(d, ok) ==
    /\ LoopFree
    /\ db_files' = IF isalnum(Spelling(d)) /\ ok THEN db_files \cup {d} ELSE db_files
    /\ UNCHANGED <<cache_vars, task_vars, io_vars, env_vars, ext_vars, db_connections,
                   nconn, opened, pc, loc, path>>

\* The status code of create_database: 400 for a name that is not alphanumeric,
\* 201 when init_db returns, 500 when it raises.
CreateStatus(d, ok) == IF ~isalnum(Spelling(d)) THEN 400 ELSE IF ok THEN 201 ELSE 500

\* A variant without the test of the name.
CreateDatabaseUnchecked(d, ok) ==
    /\ LoopFree
    /\ db_files' = IF ok THEN db_files \cup {d} ELSE db_files
    /\ created' = [name |-> d, status |-> IF ok THEN 201 ELSE 500]
    /\ UNCHANGED <<cache_vars, task_vars, req, queue, response, polled, env_vars, ext_vars,
                   db_connections, nconn, opened, pc, loc, path>>

(* The same call, with the name and the status code kept in created. *)
CreateDatabaseCall(d, ok) ==
    /\ LoopFree
    /\ db_files' = IF isalnum(Spelling(d)) /\ ok THEN db_files \cup {d} ELSE db_files
    /\ created' = [name |-> d, status |-> CreateStatus(d, ok)]
    /\ UNCHANGED <<cache_vars, task_vars, req, queue, response, polled, env_vars, ext_vars,
                   db_connections, nconn, opened, pc, loc, path>>

(* After startup_event on a DB_DIR that holds default.db: a handle is registered
   under the file's name, and with a shared library in EXTENSIONS_DIR
   load_extension("default", ...) has opened and registered one under "default",
   loaded the library into it and recorded it.  Both handles are attributed to
   thread 0, the event loop's. *)
ApiInit ==
    /\ query_cache = QueryCache(MaxCap)
    /\ now = 0
    /\ last = [op |-> "init", key |-> None, ttl |-> NoTtl, ret |-> None, n |-> 0,
               present |-> FALSE]
    /\ hist = <<>>
    /\ stored = EmptyDict
    /\ query_results = EmptyDict
    /\ extension_files \in {{}, {ExtA}}
    /\ max_workers = MAX_WORKERS
    /\ db_extensions = IF extension_files = {} THEN DictPut(EmptyDict, "default.db", <<>>)
                       ELSE DictPut(DictPut(EmptyDict, "default.db", <<>>), "default",
                                    Listing(extension_files))
    /\ loaded = {<<2, f>> : f \in extension_files}
    /\ ext_calls = {<<"default", f>> : f \in extension_files}
    /\ opened = <<[by |-> 0, name |-> "default.db", existed |-> TRUE]>>
                \o (IF extension_files = {} THEN <<>>
                    ELSE <<[by |-> 0, name |-> "default", existed |-> TRUE]>>)
    /\ nconn = Len(opened)
    /\ db_connections = [d \in {opened[h].name : h \in DOMAIN opened} |->
                             CHOOSE h \in DOMAIN opened : opened[h].name = d]
    /\ db_files = {"default"}
    /\ db_data = [d \in ApiDbNames |-> 0]
    /\ req = EmptyDict
    /\ queue = <<>>
    /\ pc = [t \in Threads |-> IF t = Sweeper THEN "idle" ELSE "new"]
    /\ loc = [t \in Threads |-> NoLocals]
    /\ response = EmptyDict
    /\ polled = NoPoll
    /\ created = NoCreate
    /\ writes = [q \in Ids |-> 0]
    /\ path = [q \in Ids |-> {}]

ApiNext ==
    \/ \E q \in Ids, r \in ApiRequests : Submit(q, r)
    \/ \E q \in Ids : StartJob(q)
    \/ \E q \in Ids : GetLookup(q)
    \/ \E q \in Ids : Connect(q)
    \/ \E q \in Ids, ok \in BOOLEAN : ConnectNew(q, ok)
    \/ \E q \in Ids : ConnectExt(q)
    \/ \E q \in Ids, ok \in BOOLEAN : ConnectExtNew(q, ok)
    \/ \E q \in Ids, ok \in BOOLEAN : ConnectLoad(q, ok)
    \/ \E q \in Ids : ExtTest(q)
    \/ \E q \in Ids : ExtAppend(q)
    \/ \E q \in Ids, ok \in BOOLEAN : ConnectRegister(q, ok)
    \/ \E q \in Ids, ok \in BOOLEAN : ExecStart(q, ok)
    \/ \E q \in Ids, ok \in BOOLEAN : ExecEnd(q, ok)
    \/ \E q \in Ids : CommitStart(q)
    \/ \E q \in Ids, ok \in BOOLEAN : CommitEnd(q, ok)
    \/ \E q \in Ids : Respond(q)
    \/ \E q \in Ids : Cleanup(q)
    \/ \E d \in ApiDbNames, ok \in BOOLEAN : CreateDatabase(d, ok)

ApiSpec == ApiInit /\ [][ApiNext]_vars

(***************************************************************************)
(* DbSpec: create_database.  DB_DIR holds default.db, EXTENSIONS_DIR is    *)
(* empty, clients call create_database with an empty, an alphanumeric and  *)
(* another name, and the requests are metadata queries on sales.           *)
(***************************************************************************)
CreateNames == {"", "sales", "no-db"}

DbRequests ==
    [query : {SELECT_SQLITE_ \o <<"v">>}, params : Params, db_name : {"sales"},
     cache_ttl : {NoTtl}, force_refresh : {FALSE}]

DbInit ==
    /\ query_cache = QueryCache(MaxCap)
    /\ now = 0
    /\ last = [op |-> "init", key |-> None, ttl |-> NoTtl, ret |-> None, n |-> 0,
               present |-> FALSE]
    /\ hist = <<>>
    /\ stored = EmptyDict
    /\ query_results = EmptyDict
    /\ extension_files = {}
    /\ max_workers = MAX_WORKERS
    /\ db_extensions = DictPut(EmptyDict, "default.db", <<>>)
    /\ loaded = {}
    /\ ext_calls = {}
    /\ opened = <<[by |-> 0, name |-> "default.db", existed |-> TRUE]>>
    /\ nconn = 1
    /\ db_connections = DictPut(EmptyDict, "default.db", 1)
    /\ db_files = {"default"}
    /\ db_data = [d \in ApiDbNames |-> 0]
    /\ req = EmptyDict
    /\ queue = <<>>
    /\ pc = [t \in Threads |-> IF t = Sweeper THEN "idle" ELSE "new"]
    /\ loc = [t \in Threads |-> NoLocals]
    /\ response = EmptyDict
    /\ polled = NoPoll
    /\ created = NoCreate
    /\ writes = [q \in Ids |-> 0]
    /\ path = [q \in Ids |-> {}]

DbNext ==
    \/ \E q \in Ids, r \in DbRequests : Submit(q, r)
    \/ \E q \in Ids : StartJob(q)
    \/ \E q \in Ids : GetLookup(q)
    \/ \E q \in Ids : Connect(q)
    \/ \E q \in Ids, ok \in BOOLEAN : ConnectNew(q, ok)
    \/ \E q \in Ids, ok \in BOOLEAN : ExecStart(q, ok)
    \/ \E q \in Ids, ok \in BOOLEAN : ExecEnd(q, ok)
    \/ \E q \in Ids : Respond(q)
    \/ \E q \in Ids : Cleanup(q)
    \/ \E d \in CreateNames, ok \in BOOLEAN : CreateDatabaseCall(d, ok)

DbSpec == DbInit /\ [][DbNext]_vars

(***************************************************************************)
(* ExtSpec: the extensions.  DB_DIR holds default.db and sales.db, two     *)
(* shared libraries lie in EXTENSIONS_DIR, the requests are metadata       *)
(* queries on sales, which has no handle under its name yet, and clients   *)
(* call load_extension_endpoint for it.                                    *)
(***************************************************************************)
ExtDbNames == {"sales"}

ExtRequests ==
    [query : {SELECT_SQLITE_ \o <<"v">>}, params : Params, db_name : ExtDbNames,
     cache_ttl : {NoTtl}, force_refresh : {FALSE}]

(* load_extension_endpoint: 404 unless the database file and the library exist; then
   load_extension, whose get_db_connection(db_name, False) opens and registers a
   handle when the name has none (okc: the connection opens, okl: the library
   loads); a failure is answered with 500. *)
LoadExtensionEndpoint(d, f, okc, okl) ==
    /\ LoopFree
    /\ IF d \notin db_files \/ f \notin extension_files \/
          (d \notin DOMAIN db_connections /\ ~okc)
       THEN UNCHANGED <<conn_vars, ext_vars>>
       ELSE LET new == d \notin DOMAIN db_connections
                conn == IF new THEN nconn + 1 ELSE db_connections[d]
                before == IF new THEN ListedExtensions ELSE ExtensionsOf(d)
            IN  /\ IF new THEN Open(0, d) /\ Register(d, conn) ELSE UNCHANGED conn_vars
                /\ IF okl
                   THEN /\ loaded' = loaded \cup {<<conn, f>>}
                        /\ db_extensions' =
                               DictPut(db_extensions, d,
                                       IF In(before, f) THEN before ELSE Append(before, f))
                        /\ ext_calls' = ext_calls \cup {<<d, f>>}
                   ELSE /\ db_extensions' = IF new THEN DictPut(db_extensions, d, before)
                                            ELSE db_extensions
                        /\ UNCHANGED <<loaded, ext_calls>>
    /\ UNCHANGED <<cache_vars, task_vars, io_vars, env_vars, pc, loc, path>>

(* After startup_event: a handle is registered under each file's name, and
   load_extension("default", ...) has opened a handle under "default", loaded both
   libraries into it and recorded them. *)
ExtInit ==
    /\ query_cache = QueryCache(MaxCap)
    /\ now = 0
    /\ last = [op |-> "init", key |-> None, ttl |-> NoTtl, ret |-> None, n |-> 0,
               present |-> FALSE]
    /\ hist = <<>>
    /\ stored = EmptyDict
    /\ query_results = EmptyDict
    /\ extension_files = ExtensionFiles
    /\ max_workers = 1
    /\ opened = <<[by |-> 0, name |-> "default.db", existed |-> TRUE],
                  [by |-> 0, name |-> "sales.db", existed |-> TRUE],
                  [by |-> 0, name |-> "default", existed |-> TRUE]>>
    /\ nconn = Len(opened)
    /\ db_connections = [d \in {opened[h].name : h \in DOMAIN opened} |->
                             CHOOSE h \in DOMAIN opened : opened[h].name = d]
    /\ db_files = {"default", "sales"}
    /\ db_data = [d \in ApiDbNames |-> 0]
    /\ db_extensions = DictPut(DictPut(DictPut(EmptyDict, "default.db", <<>>),
                                       "sales.db", <<>>),
                               "default", Listing(extension_files))
    /\ loaded = {<<3, f>> : f \in extension_files}
    /\ ext_calls = {<<"default", f>> : f \in extension_files}
    /\ req = EmptyDict
    /\ queue = <<>>
    /\ pc = [t \in Threads |-> IF t = Sweeper THEN "idle" ELSE "new"]
    /\ loc = [t \in Threads |-> NoLocals]
    /\ response = EmptyDict
    /\ polled = NoPoll
    /\ created = NoCreate
    /\ writes = [q \in Ids |-> 0]
    /\ path = [q \in Ids |-> {}]

ExtNext ==
    \/ \E q \in Ids, r \in ExtRequests : Submit(q, r)
    \/ \E q \in Ids : StartJob(q)
    \/ \E q \in Ids : GetLookup(q)
    \/ \E q \in Ids : Connect(q)
    \/ \E q \in Ids, ok \in BOOLEAN : ConnectNew(q, ok)
    \/ \E q \in Ids : ConnectExt(q)
    \/ \E q \in Ids, ok \in BOOLEAN : ConnectExtNew(q, ok)
    \/ \E q \in Ids, ok \in BOOLEAN : ConnectLoad(q, ok)
    \/ \E q \in Ids : ExtTest(q)
    \/ \E q \in Ids : ExtAppend(q)
    \/ \E q \in Ids, ok \in BOOLEAN : ConnectRegister(q, ok)
    \/ \E q \in Ids, ok \in BOOLEAN : ExecStart(q, ok)
    \/ \E q \in Ids, ok \in BOOLEAN : ExecEnd(q, ok)
    \/ \E q \in Ids : Respond(q)
    \/ \E q \in Ids : Cleanup(q)
    \/ \E d \in ExtDbNames, f \in ExtensionFiles, okc \in BOOLEAN, okl \in BOOLEAN :
           LoadExtensionEndpoint(d, f, okc, okl)

ExtSpec == ExtInit /\ [][ExtNext]_vars

(***************************************************************************)
(* TaskSpec: the life of the Tasks.  The requests are those of ApiSpec on  *)
(* the default database, and clients poll get_query_status.                *)
(***************************************************************************)
TaskRequests == {r \in ApiRequests : r.db_name \in DbNames}

TaskNext ==
    \/ \E q \in Ids, r \in TaskRequests : Submit(q, r)
    \/ \E q \in Ids : StartJob(q)
    \/ \E q \in Ids : GetLookup(q)
    \/ \E q \in Ids : Connect(q)
    \/ \E q \in Ids, ok \in BOOLEAN : ConnectNew(q, ok)
    \/ \E q \in Ids, ok \in BOOLEAN : ExecStart(q, ok)
    \/ \E q \in Ids, ok \in BOOLEAN : ExecEnd(q, ok)
    \/ \E q \in Ids : CommitStart(q)
    \/ \E q \in Ids, ok \in BOOLEAN : CommitEnd(q, ok)
    \/ \E q \in Ids : Respond(q)
    \/ \E q \in Ids : Cleanup(q)
    \/ \E q \in Ids : StatusCall(q)

TaskSpec == Init /\ [][TaskNext]_vars

\* The event loop resumes run_query once the executor's future is done, and runs the
\* background task, whose sleep ends, once the response is out.
FairTaskSpec ==
    Init /\ [][TaskNext]_vars /\ \A q \in Ids : WF_vars(Respond(q)) /\ WF_vars(Cleanup(q))

(***************************************************************************)
(* PoolSpec: the thread pool.  The pool has 1 .. MAX_WORKERS threads and   *)
(* the requests are metadata queries, which never touch the cache's        *)
(* entries.                                                                *)
(***************************************************************************)
PoolRequests ==
    [query : {SELECT_SQLITE_ \o <<"v">>}, params : Params, db_name : DbNames,
     cache_ttl : {NoTtl}, force_refresh : BOOLEAN]

PoolInit ==
    /\ query_cache = QueryCache(MaxCap)
    /\ now = 0
    /\ last = [op |-> "init", key |-> None, ttl |-> NoTtl, ret |-> None, n |-> 0,
               present |-> FALSE]
    /\ hist = <<>>
    /\ stored = EmptyDict
    /\ query_results = EmptyDict
    /\ db_connections = EmptyDict
    /\ db_data = [d \in DbNames |-> 0]
    /\ nconn = 0
    /\ opened = <<>>
    /\ db_files = {}
    /\ extension_files = {}
    /\ max_workers \in 1 .. MAX_WORKERS
    /\ db_extensions = EmptyDict
    /\ loaded = {}
    /\ ext_calls = {}
    /\ req = EmptyDict
    /\ queue = <<>>
    /\ pc = [t \in Threads |-> IF t = Sweeper THEN "idle" ELSE "new"]
    /\ loc = [t \in Threads |-> NoLocals]
    /\ response = EmptyDict
    /\ polled = NoPoll
    /\ created = NoCreate
    /\ writes = [q \in Ids |-> 0]
    /\ path = [q \in Ids |-> {}]

PoolNext ==
    \/ \E q \in Ids, r \in PoolRequests : Submit(q, r)
    \/ \E q \in Ids : StartJob(q)
    \/ \E q \in Ids : GetLookup(q)
    \/ \E q \in Ids : Connect(q)
    \/ \E q \in Ids, ok \in BOOLEAN : ConnectNew(q, ok)
    \/ \E q \in Ids, ok \in BOOLEAN : ExecStart(q, ok)
    \/ \E q \in Ids, ok \in BOOLEAN : ExecEnd(q, ok)
    \/ \E q \in Ids : Respond(q)
    \/ \E q \in Ids : Cleanup(q)

PoolSpec == PoolInit /\ [][PoolNext]_vars

\* The executor hands a queued job to a thread as soon as one is free, the threads
\* are scheduled, and every call into the driver returns or raises.
FairPoolSpec ==
    /\ PoolInit /\ [][PoolNext]_vars
    /\ \A q \in Ids :
        /\ WF_vars(StartJob(q))
        /\ WF_vars(GetLookup(q))
        /\ WF_vars(Connect(q))
        /\ WF_vars(\E ok \in BOOLEAN : ConnectNew(q, ok))
        /\ WF_vars(\E ok \in BOOLEAN : ExecStart(q, ok))
        /\ WF_vars(\E ok \in BOOLEAN : ExecEnd(q, ok))

(***************************************************************************)
(* KeySpec: the cache keys.  One pool thread, no clock; the requests are   *)
(* SELECTs that differ in spelling, in params and in the database name,    *)
(* one name and one query holding a colon.                                 *)
(***************************************************************************)
KeyDbNames == {KeyDb, KeyDbColon}

KeyQueries ==
    { <<"S", "E", "L", "E", "C", "T", " ", "2">>,                    \* SELECT 2
      <<"s", "e", "l", "e", "c", "t", " ", "\t", "2", " ">>,          \* select \t2
      <<"s", "e", "l", "e", "c", "t", " ", "1", " ", "-", "-", ":",
        "s", "e", "l", "e", "c", "t", " ", "2">> }                   \* select 1 --:select 2

\* None, {} and {"a": 1}
KeyParams == {NoParams, <<EmptyDict>>, <<DictPut(EmptyDict, "a", <<"1">>)>>}

KeyRequests ==
    [query : KeyQueries, params : KeyParams, db_name : KeyDbNames, cache_ttl : {NoTtl},
     force_refresh : BOOLEAN]

KeyInit ==
    /\ \E size \in 1 .. MaxCap : query_cache = QueryCache(size)
    /\ now = 0
    /\ last = [op |-> "init", key |-> None, ttl |-> NoTtl, ret |-> None, n |-> 0,
               present |-> FALSE]
    /\ hist = <<>>
    /\ stored = EmptyDict
    /\ query_results = EmptyDict
    /\ db_connections = EmptyDict
    /\ db_data = [d \in KeyDbNames |-> 0]
    /\ nconn = 0
    /\ opened = <<>>
    /\ db_files = {}
    /\ extension_files = {}
    /\ max_workers = 1
    /\ db_extensions = EmptyDict
    /\ loaded = {}
    /\ ext_calls = {}
    /\ req = EmptyDict
    /\ queue = <<>>
    /\ pc = [t \in Threads |-> IF t = Sweeper THEN "idle" ELSE "new"]
    /\ loc = [t \in Threads |-> NoLocals]
    /\ response = EmptyDict
    /\ polled = NoPoll
    /\ created = NoCreate
    /\ writes = [q \in Ids |-> 0]
    /\ path = [q \in Ids |-> {}]

KeyNext ==
    \/ \E q \in Ids, r \in KeyRequests : Submit(q, r)
    \/ \E q \in Ids : StartJob(q)
    \/ \E q \in Ids : GetLookup(q)
    \/ \E q \in Ids : GetLruTest(q)
    \/ \E q \in Ids : GetLruRemove(q)
    \/ \E q \in Ids : GetLruAppend(q)
    \/ \E q \in Ids : Connect(q)
    \/ \E q \in Ids, ok \in BOOLEAN : ConnectNew(q, ok)
    \/ \E q \in Ids, ok \in BOOLEAN : ExecStart(q, ok)
    \/ \E q \in Ids, ok \in BOOLEAN : ExecEnd(q, ok)
    \/ \E q \in Ids : SetFull(q)
    \/ \E q \in Ids : SetPop(q)
    \/ \E q \in Ids : SetPut(q)
    \/ \E q \in Ids : SetExpiry(q)
    \/ \E q \in Ids : SetLruTest(q)
    \/ \E q \in Ids : SetLruRemove(q)
    \/ \E q \in Ids : SetLruAppend(q)
    \/ \E q \in Ids : RmCache(q)
    \/ \E q \in Ids : RmExpiry(q)
    \/ \E q \in Ids : RmLruTest(q)
    \/ \E q \in Ids : Respond(q)
    \/ \E q \in Ids : Cleanup(q)

\* With one thread _remove_item is only called for the key _remove_lru_item has just
\* popped from lru_keys, so its test of lru_keys is false and its remove is never run.
KeySpec == KeyInit /\ [][KeyNext]_vars

(***************************************************************************)
(* StaleSpec: reads of a cached result and writes.  An earlier submission  *)
(* of SELECT 1 on default has stored its rows at time 0; the requests are  *)
(* the same SELECT without force_refresh and INSERTs, and the clock does   *)
(* not advance, so the entry is neither expired, evicted nor overwritten.  *)
(***************************************************************************)
SELECT_1 == SELECT \o <<" ", "1">>

StaleRequests ==
    [query : {SELECT_1, INSERT}, params : Params, db_name : DbNames, cache_ttl : {NoTtl},
     force_refresh : {FALSE}]

WarmKey == generate_cache_key(SELECT_1, NoParams, "default")
WarmRows == [rows_of |-> Normalize(SELECT_1), version |-> 0]

StaleInit ==
    /\ query_cache = set(QueryCache(MaxCap), WarmKey, WarmRows, NoTtl, 0)
    /\ now = 0
    /\ last = [op |-> "init", key |-> None, ttl |-> NoTtl, ret |-> None, n |-> 0,
               present |-> FALSE]
    /\ hist = <<>>
    /\ stored = EmptyDict
    /\ query_results = EmptyDict
    /\ db_connections = DictPut(EmptyDict, "default", 1)
    /\ db_data = [d \in DbNames |-> 0]
    /\ nconn = 1
    /\ opened = <<[by |-> 0, name |-> "default", existed |-> TRUE]>>
    /\ db_files = {"default"}
    /\ extension_files = {}
    /\ max_workers = MAX_WORKERS
    /\ db_extensions = DictPut(EmptyDict, "default", <<>>)
    /\ loaded = {}
    /\ ext_calls = {}
    /\ req = EmptyDict
    /\ queue = <<>>
    /\ pc = [t \in Threads |-> IF t = Sweeper THEN "idle" ELSE "new"]
    /\ loc = [t \in Threads |-> NoLocals]
    /\ response = EmptyDict
    /\ polled = NoPoll
    /\ created = NoCreate
    /\ writes = [q \in Ids |-> 0]
    /\ path = [q \in Ids |-> {}]

StaleNext ==
    \/ \E q \in Ids, r \in StaleRequests : Submit(q, r)
    \/ \E q \in Ids : StartJob(q)
    \/ \E q \in Ids : GetLookup(q)
    \/ \E q \in Ids : GetLruTest(q)
    \/ \E q \in Ids : GetLruRemove(q)
    \/ \E q \in Ids : GetLruAppend(q)
    \/ \E q \in Ids : Connect(q)
    \/ \E q \in Ids, ok \in BOOLEAN : ExecStart(q, ok)
    \/ \E q \in Ids, ok \in BOOLEAN : ExecEnd(q, ok)
    \/ \E q \in Ids : CommitStart(q)
    \/ \E q \in Ids, ok \in BOOLEAN : CommitEnd(q, ok)
    \/ \E q \in Ids : Respond(q)
    \/ \E q \in Ids : Cleanup(q)

StaleSpec == StaleInit /\ [][StaleNext]_vars

(***************************************************************************)
(* Properties of QueryCache under CacheSpec.                               *)
(***************************************************************************)
Entries == DOMAIN query_cache.cache
Size == Cardinality(Entries)
Without(s, k) == SelectSeq(s, LAMBDA x : x # k)

\* C4: whatever calls were made, one at a time, the cache holds at most
\* max_cache_size entries (in particular whenever a set has returned).
CapacityBound == Size <= query_cache.max_cache_size

\* C4 witness: a set has returned on a cache that was full before the call.
CapacityBoundWitness ==
    /\ last.op = "set"
    /\ last.n = query_cache.max_cache_size
    /\ Size = query_cache.max_cache_size

\* C6 (scenario): on a cache of capacity 2, set(a); set(b); set(c) leaves b and c,
\* and set(a); set(b); get(a); set(c) leaves a and c.
LruScenarios ==
    query_cache.max_cache_size = Cardinality({"a", "b"}) =>
        /\ hist = ScenarioFifo => Entries = {"b", "c"}
        /\ hist = ScenarioTouched => Entries = {"a", "c"}

\* C6 (general): a set of an absent key into a full cache removes exactly the head of
\* the LRU order, which is an entry whose last set or get-hit is the oldest, and
\* keeps every other entry as it was.
EvictsOnlyLru ==
    \A k \in Keys :
        (last'.op = "set" /\ last'.key = k /\ k \notin Entries
            /\ Size = query_cache.max_cache_size)
        => LET old == query_cache
               new == query_cache'
               h == Head(old.lru_keys)
           IN  /\ h \in Entries
               /\ DOMAIN new.cache = (Entries \ {h}) \cup {k}
               /\ \A j \in Entries : old.cache[h].last_hit_time <= old.cache[j].last_hit_time
               /\ \A j \in Entries \ {h} :
                     /\ new.cache[j] = old.cache[j]
                     /\ new.expiration_times[j] = old.expiration_times[j]

\* C6: eviction on insertion into a full cache removes exactly the least recently
\* used entry, in general and in the two capacity-2 scenarios.
LruEviction == []LruScenarios /\ [][EvictsOnlyLru]_vars

\* C6 witness: the scenario with the get in between has run to its end.
LruEvictionWitness ==
    /\ query_cache.max_cache_size = Cardinality({"a", "b"})
    /\ hist = ScenarioTouched
    /\ last.op = "set" /\ last.key = "c"

\* C7: a set of a key that is already present in a full cache removes no entry:
\* the cache holds as many entries after the call as before, the key's among them.
SetPresentKeepsKeys ==
    (last.op = "set" /\ last.present /\ last.n = query_cache.max_cache_size)
    => (Size = last.n /\ last.key \in Entries)

\* C8: get(k) reports a hit exactly when k has an entry with now < expiresAt, and
\* otherwise returns (None, False); a lookup of an expired key removes it from the
\* entry map, the expiry index and the LRU order and leaves all other entries alone;
\* a lookup of an absent key changes nothing.
GetStep ==
    \A k \in Keys :
        (last'.op = "get" /\ last'.key = k)
        => LET old == query_cache
               new == query_cache'
               present == k \in Entries
               live == present /\ now < old.expiration_times[k]
           IN  /\ last'.ret[2] <=> live
               /\ ~live => last'.ret = <<None, FALSE>>
               /\ ~present => new = old
               /\ (present /\ ~live) =>
                     /\ k \notin DOMAIN new.cache
                     /\ k \notin DOMAIN new.expiration_times
                     /\ ~In(new.lru_keys, k)
                     /\ DOMAIN new.cache = Entries \ {k}
                     /\ \A j \in Entries \ {k} :
                           /\ new.cache[j] = old.cache[j]
                           /\ new.expiration_times[j] = old.expiration_times[j]
                     /\ new.lru_keys = Without(old.lru_keys, k)

GetHitsOnlyLive == [][GetStep]_vars

\* C8 witness: a get has just missed on an expired entry and removed it.
GetHitsOnlyLiveWitness ==
    /\ last.op = "get"
    /\ last.ret = <<None, FALSE>>
    /\ Size = last.n - 1

\* C9: when cleanup_expired has returned, no entry with expiresAt <= now is left
\* (the entries get treats as expired), and it returned the number it removed.
CleanupRemovesExpired ==
    last.op = "cleanup_expired"
    => /\ \A k \in Entries : query_cache.expiration_times[k] > now
       /\ last.ret = last.n - Size

\* C10: every entry present in the cache has expiresAt > createdAt.
ExpiresAfterCreated ==
    \A k \in Entries : query_cache.expiration_times[k] > query_cache.cache[k].timestamp

\* C11: a get that hits adds one to the entry's hits, moves the key to the tail of the
\* LRU order and returns the payload of the latest set of the key; apart from the
\* entry's last_hit_time it changes nothing else: the key's expiry, every other entry
\* and expiry, and the relative LRU order of the other keys stay as they were.
GetHitStep ==
    \A k \in Keys :
        (last'.op = "get" /\ last'.key = k /\ last'.ret[2])
        => LET old == query_cache
               new == query_cache'
           IN  /\ last'.ret[1] = stored[k]
               /\ new.cache[k] = [old.cache[k] EXCEPT !.hits = @ + 1,
                                                       !.last_hit_time = now]
               /\ new.lru_keys = Append(Without(old.lru_keys, k), k)
               /\ new.expiration_times = old.expiration_times
               /\ DOMAIN new.cache = Entries
               /\ \A j \in Entries \ {k} : new.cache[j] = old.cache[j]
               /\ new.max_cache_size = old.max_cache_size
               /\ new.default_ttl = old.default_ttl

GetHitFrame == [][GetHitStep]_vars

\* C11 witness: after set(a); set(b), a get of a has hit: a is behind b in the LRU
\* order and has been hit once since it was stored.
GetHitFrameWitness ==
    /\ last.op = "get" /\ last.key = "a" /\ last.ret[2]
    /\ query_cache.lru_keys = <<"b", "a">>
    /\ query_cache.cache["a"].hits = 1 + 1

(***************************************************************************)
(* Properties of the running service under Spec.                           *)
(***************************************************************************)
Terminal == {"completed", "error"}

\* C1: run_query returns the id with the Task still pending: whenever a submission's
\* response has been returned, the status it carries is pending.
SubmitReturnsPending ==
    \A q \in DOMAIN response : response[q].status = "pending"

\* The workers that are inside an engine call (cursor.execute/fetchall, commit) on handle h.
InEngineCall(h) == {q \in Ids : pc[q] \in {"executing", "committing"} /\ loc[q].conn = h}

\* C2: at most one worker at a time is inside an engine call on a connection handle.
EngineCallsSerialized ==
    \A h \in 1..nconn : Cardinality(InEngineCall(h)) <= 1

TaskInv ==
    \A q \in Ids :
        /\ writes[q] <= 1
        /\ q \in DOMAIN query_results =>
              /\ query_results[q].status \in {"pending"} \cup Terminal
              /\ query_results[q].status = "pending" <=> writes[q] = 0
        /\ pc[q] \in {"done", "responded"} =>
              /\ q \in DOMAIN query_results
              /\ query_results[q].status \in Terminal
              /\ writes[q] = 1
        /\ pc[q] = "cleaned" => writes[q] = 1

TaskStep ==
    \A q \in Ids :
        /\ (q \notin DOMAIN query_results /\ q \in DOMAIN query_results') =>
              query_results'[q] = PendingTask
        /\ (q \in DOMAIN query_results /\ query_results[q].status \in Terminal) =>
              \/ q \notin DOMAIN query_results'
              \/ query_results'[q] = query_results[q]

\* C3: a Task is created pending, gets exactly one terminal write (completed or error)
\* on every path through execute_query, and once terminal it stays as written until it
\* is removed.
TaskLifecycle == []TaskInv /\ [][TaskStep]_vars

\* C3 witness: one submission finished on the cache-hit path and another by executing.
TaskLifecycleWitness ==
    \E q1, q2 \in DOMAIN query_results :
        /\ pc[q1] = "done" /\ query_results[q1].cached = Some(TRUE)
        /\ pc[q2] \in {"done", "responded"} /\ query_results[q2].cached = Some(FALSE)

\* The threads that are inside a QueryCache call.
CachePcs ==
    {"get_lru_test", "get_lru_remove", "get_lru_append", "set_full", "set_pop",
     "set_put", "set_expiry", "set_lru_test", "set_lru_remove", "set_lru_append",
     "rm_cache", "rm_expiry", "rm_lru_test", "rm_lru_remove", "sweep"}
CacheQuiet == \A t \in Threads : pc[t] \notin CachePcs

LruSet == {query_cache.lru_keys[i] : i \in DOMAIN query_cache.lru_keys}

\* C5: between cache calls, however the workers' and the sweeper's calls interleaved,
\* the entry map, the expiry index and the LRU order hold the same keys, no key is
\* twice in the LRU order, and there are at most max_cache_size entries.
CacheConsistent ==
    CacheQuiet =>
        /\ DOMAIN query_cache.expiration_times = Entries
        /\ LruSet = Entries
        /\ Len(query_cache.lru_keys) = Cardinality(LruSet)
        /\ Size <= query_cache.max_cache_size

\* The submissions whose worker has written the terminal Task and not yet been answered.
Done == {q \in Ids : pc[q] = "done"}

\* A submission served from the cache obtained no handle and made no engine call, and
\* no Task with cached = True comes from a submission that made an engine call.
HitSkipsEngine ==
    \A q \in Ids :
        /\ "hit" \in path[q] => path[q] = {"hit"}
        /\ (q \in DOMAIN query_results /\ query_results[q].cached = Some(TRUE)) =>
              path[q] = {"hit"}

\* A submission whose lookup found an unexpired entry ends completed, with cached =
\* True, execution time 0.0 and a payload.
HitCompletes ==
    \A q \in Done :
        "hit" \in path[q] =>
            /\ query_results[q].status = "completed"
            /\ query_results[q].cached = Some(TRUE)
            /\ query_results[q].execution_time = Some("0.0")
            /\ query_results[q].result # Absent

\* C12: a submission without force_refresh whose key has an unexpired entry completes
\* with cached = True, execution time 0 and the cached payload, and neither obtains a
\* handle nor makes an engine call; a Task with cached = True never comes from an
\* engine call.
CacheOrEngine == HitSkipsEngine /\ HitCompletes

\* The requests of finished submissions that are reads, and those that are cached reads.
IsRead(q) == IsSelect(req[q].query)
IsCachedRead(q) == IsRead(q) /\ ~IsMetadata(req[q].query)

\* A read that is no metadata query and whose execution succeeded completes with
\* cached = False and its rows.
ReadCompletes ==
    \A q \in Done :
        (IsCachedRead(q) /\ "set" \in path[q]) =>
            /\ query_results[q].status = "completed"
            /\ query_results[q].cached = Some(FALSE)
            /\ query_results[q].result # Absent
            /\ query_results[q].result[1].rows_of = Normalize(req[q].query)

\* What query_cache.set stores is the submission's rows, under its key, expiring after
\* the requested TTL, or the default TTL when none was requested.
ReadStoresRows ==
    \A q \in Ids :
        (pc[q] = "set_put" /\ pc'[q] = "set_expiry") =>
            /\ IsCachedRead(q)
            /\ loc[q].val.rows_of = Normalize(req[q].query)
            /\ query_cache'.cache[KeyOf(q)].result = loc[q].val
            /\ loc'[q].exp = now + (IF req[q].cache_ttl = NoTtl THEN CACHE_EXPIRY
                                                               ELSE req[q].cache_ttl[1])

\* A metadata read that executed completes with its rows and never calls set.
MetadataNotCached ==
    \A q \in Ids :
        (q \in DOMAIN req /\ IsRead(q) /\ IsMetadata(req[q].query)) =>
            /\ "set" \notin path[q]
            /\ (q \in Done /\ "engine" \in path[q] /\ query_results[q].status = "completed")
                  => query_results[q].result[1].rows_of = Normalize(req[q].query)

\* A submission whose lookup found the unexpired entry completes with cached = True
\* and the rows stored for its query.
RepeatServedFromCache ==
    \A q \in Done :
        "hit" \in path[q] =>
            /\ query_results[q].status = "completed"
            /\ query_results[q].cached = Some(TRUE)
            /\ query_results[q].result # Absent
            /\ query_results[q].result[1].rows_of = Normalize(req[q].query)

\* C13: a read that is no metadata query and executes successfully stores its rows
\* under its key with the requested (else the default) TTL and completes with cached =
\* False; a metadata read completes with its rows and adds no cache entry; an identical
\* submission without force_refresh that finds the entry unexpired completes with
\* cached = True and the same rows.
ReadThroughCache ==
    /\ [](ReadCompletes /\ MetadataNotCached /\ RepeatServedFromCache)
    /\ [][ReadStoresRows]_vars

\* The steps of submission q's own worker inside execute_query.
WorkerStep(q) == pc[q] \in WorkerPcs /\ pc'[q] # pc[q]

\* No step of a modification's worker changes the cache.
WriteStep ==
    \A q \in Ids :
        (WorkerStep(q) /\ ~IsRead(q)) => query_cache' = query_cache

\* A modification never finds or stores a cache entry, and when it completes its Task
\* has cached = False and the one row {"rows_affected": n}.
WriteResult ==
    \A q \in DOMAIN req :
        ~IsRead(q) =>
            /\ path[q] \subseteq {"handle", "engine"}
            /\ (q \in Done /\ query_results[q].status = "completed") =>
                  /\ "engine" \in path[q]
                  /\ query_results[q].cached = Some(FALSE)
                  /\ query_results[q].result = Some(RowsAffected)

GetPcs == {"get", "get_lru_test", "get_lru_remove", "get_lru_append"}

\* A read submitted with force_refresh never enters query_cache.get; once its engine
\* call has succeeded (it has reached query_cache.set) it completes with cached =
\* False and the rows it fetched, and a completed one has made an engine call.
ForceRefreshExecutes ==
    \A q \in DOMAIN req :
        (req[q].force_refresh /\ IsCachedRead(q)) =>
            /\ pc[q] \notin GetPcs
            /\ "hit" \notin path[q]
            /\ (q \in Done /\ query_results[q].status = "completed") =>
                  /\ "engine" \in path[q]
                  /\ query_results[q].cached = Some(FALSE)
            /\ (q \in Done /\ "set" \in path[q]) =>
                  /\ query_results[q].status = "completed"
                  /\ query_results[q].result # Absent

\* The entry set stores replaces what the key had: the fetched rows, hits 1, created
\* now.
ForceRefreshReplaces ==
    \A q \in Ids :
        (pc[q] = "set_put" /\ pc'[q] = "set_expiry" /\ req[q].force_refresh) =>
            query_cache'.cache[KeyOf(q)] =
                [result |-> loc[q].val, timestamp |-> now, hits |-> 1,
                 last_hit_time |-> now]

\* C15: a read with force_refresh never consults the cache: even when its key has an
\* unexpired entry it makes an engine call and completes with cached = False, and on
\* success it replaces the entry of its key with the fresh rows and a fresh expiry.
ForceRefresh == []ForceRefreshExecutes /\ [][ForceRefreshReplaces]_vars

\* The error Tasks written for a failure of the driver: opening the handle, cursor,
\* execute, fetchall or commit.
EngineFailed(q) ==
    /\ q \in DOMAIN query_results
    /\ query_results[q].status = "error"
    /\ query_results[q].error = Some("sqlean.Error")

\* A failed submission has an error Task with a message and no result, it never
\* called set, and what run_query returns for it is an ordinary response with status
\* error and the message; no finished worker leaves its Task pending.
FailureRecorded ==
    /\ \A q \in Ids :
          EngineFailed(q) =>
              /\ query_results[q].result = Absent
              /\ "set" \notin path[q]
    /\ \A q \in Done : query_results[q].status \in Terminal
    /\ \A q \in DOMAIN response :
          /\ response[q].status \in Terminal
          /\ response[q].status = "error" => response[q].error # Absent

\* The step that records a failure changes nothing but the failed submission's own
\* Task and position: the cache, the registry, the queue and every other thread stay
\* as they were.
FailureStep ==
    \A q \in Ids :
        (WorkerStep(q) /\ query_results'[q].status = "error") =>
            /\ pc'[q] = "done"
            /\ query_cache' = query_cache
            /\ db_connections' = db_connections
            /\ queue' = queue
            /\ \A t \in Threads \ {q} : pc'[t] = pc[t]
            /\ \A p \in DOMAIN query_results \ {q} : query_results'[p] = query_results[p]

\* After a failure the service still takes submissions and hands them to the pool.
StillServing ==
    (\E q \in Ids : EngineFailed(q)) =>
        /\ (LoopFree /\ \E p \in Ids : pc[p] = "new") =>
              ENABLED (\E p \in Ids, r \in Requests : Submit(p, r))
        /\ (queue # <<>> /\ Cardinality(Running) < max_workers) =>
              ENABLED (\E p \in Ids : StartJob(p))

\* C16: a failure while obtaining the handle, executing, fetching or committing ends
\* the submission with an error Task carrying a message; it is not raised to the
\* caller of run_query, the submission adds or replaces no cache entry, and later
\* submissions are still accepted and executed.
FailureContained == [](FailureRecorded /\ StillServing) /\ [][FailureStep]_vars

\* C16 witness: one submission has failed in the engine and a later one has completed
\* through the engine.
FailureContainedWitness ==
    \E q1, q2 \in Ids :
        /\ q1 < q2
        /\ EngineFailed(q1)
        /\ q2 \in Done /\ query_results[q2].status = "completed"
        /\ "engine" \in path[q2]

(***************************************************************************)
(* Properties of the databases and the Tasks under ApiSpec.                *)
(***************************************************************************)
HandlesOf(name) == {h \in DOMAIN opened : opened[h].name = name}

\* C17: for each database name at most one handle is ever opened by
\* get_db_connection, also when the creation loads the discoverable extensions
\* and when two workers ask for a name that is not registered yet.
OneHandlePerName == \A h \in DOMAIN opened : HandlesOf(opened[h].name) = {h}

\* C18: a submission whose database name is not purely alphanumeric, or names a
\* database that does not exist, is rejected when it is submitted: no worker ever
\* opens a handle, or creates a database file, for such a name.
NoHandleForUnknownName ==
    \A h \in DOMAIN opened :
        opened[h].by \in Ids => isalnum(Spelling(opened[h].name)) /\ opened[h].existed

(***************************************************************************)
(* Properties of the Tasks under TaskSpec and FairTaskSpec.                *)
(***************************************************************************)
\* The ids that were never issued, and those whose cleanup has run.
NotIssued == {q \in Ids : pc[q] = "new"}
Removed == {q \in Ids : pc[q] = "cleaned"}

StoreHoldsTheRest == DOMAIN query_results = Ids \ (NotIssued \cup Removed)

\* A step that is a call of get_query_status: the answer is NotFound exactly when
\* the id has no Task, otherwise it carries the Task's fields, and nothing else changes.
StatusStep ==
    polled' # polled =>
        LET q == polled'.id
            a == polled'.answer
        IN  /\ a = Absent <=> q \notin DOMAIN query_results
            /\ q \in DOMAIN query_results =>
                   /\ a # Absent
                   /\ a[1].id = q
                   /\ a[1].status = query_results[q].status
                   /\ a[1].result = query_results[q].result
                   /\ a[1].error = query_results[q].error
                   /\ a[1].cached = (query_results[q].cached = Some(TRUE))
            /\ query_results' = query_results
            /\ query_cache' = query_cache

\* C19: get_query_status answers NotFound exactly for the ids that have no Task,
\* which are the ids never issued and those removed by cleanup; for an id that has
\* one it answers with the Task's current status, result, error and cached, and it
\* changes neither query_results nor the cache.
StatusReads == []StoreHoldsTheRest /\ [][StatusStep]_vars

\* Status was asked for a completed Task, after another Task was removed.
StatusReadsWitness ==
    /\ Removed # {}
    /\ polled.id \in DOMAIN query_results
    /\ polled.answer = Some(ResponseOf(polled.id, query_results[polled.id]))
    /\ query_results[polled.id].status = "completed"

\* Cleanup is scheduled when run_query returns the response, for a Task that is terminal.
ScheduleStep ==
    \A q \in Ids :
        pc'[q] = "responded" /\ pc[q] # "responded" =>
            /\ pc[q] = "done"
            /\ query_results[q].status \in Terminal
            /\ q \in DOMAIN response'

\* A Task leaves query_results only by its own cleanup, which runs once and takes
\* nothing else along.
RemovalStep ==
    \A q \in DOMAIN query_results :
        q \notin DOMAIN query_results' =>
            /\ pc[q] = "responded" /\ pc'[q] = "cleaned"
            /\ query_results' = DictDel(query_results, q)

\* Nothing happens to a submission after its cleanup, and polling moves no submission.
RetentionStep ==
    /\ \A q \in Removed : pc'[q] = "cleaned"
    /\ polled' # polled => pc' = pc

RemovedIsNotFound == \A q \in Removed : get_query_status(q) = Absent

EventuallyRemoved ==
    \A q \in Ids :
        (q \in DOMAIN query_results /\ query_results[q].status \in Terminal)
            ~> (q \notin DOMAIN query_results)

\* C20: the cleanup of a Task is scheduled once, when the Task is terminal and its
\* response is returned; polling get_query_status neither reschedules nor postpones
\* it; when it runs it deletes that id only, and from then on get_query_status
\* answers NotFound for it; every Task that became terminal is eventually removed.
Retention ==
    /\ []RemovedIsNotFound
    /\ [][ScheduleStep /\ RemovalStep /\ RetentionStep]_vars
    /\ EventuallyRemoved

\* A Task was removed while another is still kept, and status was asked for the
\* removed one.
RetentionWitness ==
    /\ polled.id \in Removed
    /\ polled.answer = Absent
    /\ \E p \in DOMAIN query_results : query_results[p].status \in Terminal

(***************************************************************************)
(* The sweeper under Spec.                                                 *)
(***************************************************************************)
\* C21: whatever the workers do to the cache while cleanup_expired runs, the loop of
\* periodic_cache_cleanup goes on, so that expired entries keep being removed.
SweeperRuns == pc[Sweeper] # "dead"

(***************************************************************************)
(* The thread pool under FairPoolSpec.                                     *)
(***************************************************************************)
Waiting == {queue[i] : i \in DOMAIN queue}

PoolBound == Cardinality(Running) <= max_workers

\* The jobs no thread has taken are in the queue, once each, and every submission
\* that was accepted and is not cleaned up has its Task.
NoneDropped ==
    /\ Waiting = {q \in Ids : pc[q] = "queued"}
    /\ Len(queue) = Cardinality(Waiting)
    /\ \A q \in Ids : pc[q] \notin {"new", "cleaned"} => q \in DOMAIN query_results

EventuallyTerminal ==
    \A q \in Ids :
        (pc[q] = "queued")
            ~> (q \in DOMAIN query_results /\ query_results[q].status \in Terminal)

\* C22: at most max_workers submissions are inside execute_query at any moment; a
\* submission that finds every thread busy waits in the queue and none is dropped;
\* when the threads are scheduled and every call into the driver returns, every
\* accepted submission's Task eventually becomes completed or error.
PoolServesAll == [](PoolBound /\ NoneDropped) /\ EventuallyTerminal

\* A submission waits in the queue while every thread of the pool is busy.
PoolServesAllWitness ==
    /\ queue # <<>>
    /\ Cardinality(Running) = max_workers

(***************************************************************************)
(* Properties of the extensions under ExtSpec.                             *)
(***************************************************************************)
\* A step of load_all_extensions in which load_extension returns or raises: the loop
\* goes on with the files that are left, and the Task is not touched.
LoadStep ==
    \A q \in Ids :
        pc[q] \in {"conn_ext_new", "conn_load"} /\ pc'[q] # pc[q] =>
            /\ pc'[q] \in {"conn_load", "ext_test", "conn_ext"}
            /\ loc'[q].exts = loc[q].exts
            /\ loc'[q].conn = loc[q].conn
            /\ query_results' = query_results

\* The handle get_db_connection returns after a creation is the one it registered.
ReturnStep ==
    \A q \in Ids :
        pc[q] = "conn_reg" /\ pc'[q] = "exec" =>
            /\ db_connections'[req[q].db_name] = loc'[q].conn
            /\ loc'[q].conn = loc[q].conn

\* The creation registers only when every discovered file was passed to
\* load_extension, and the handle it returns is an open one.
AllAttempted ==
    \A q \in Ids :
        /\ pc[q] = "conn_reg" => loc[q].exts = {}
        /\ pc[q] \in {"conn_ext", "conn_ext_new", "conn_load", "conn_reg", "exec"} =>
               loc[q].conn \in 1 .. nconn

\* C23: when get_db_connection creates a handle and loads the discovered extensions,
\* an extension that fails to load does not end the creation: the other files are
\* still passed to load_extension and the call returns a registered, open handle.
BestEffortLoading == []AllAttempted /\ [][LoadStep /\ ReturnStep]_vars

\* A creation in which an extension failed to load has returned its registered handle.
BestEffortLoadingWitness ==
    \E q \in Ids :
        /\ pc[q] = "exec"
        /\ {"loadfail", "handle"} \subseteq path[q]
        /\ db_connections[req[q].db_name] = loc[q].conn

Count(s, x) == Cardinality({i \in DOMAIN s : s[i] = x})

\* C24: an extension name load_extension returned True for is recorded for the
\* database exactly once, and no name is recorded twice.
RecordedOnce ==
    /\ \A c \in ext_calls : Count(ExtensionsOf(c[1]), c[2]) = 1
    /\ \A d \in DOMAIN db_extensions :
           \A i \in DOMAIN db_extensions[d] : Count(db_extensions[d], db_extensions[d][i]) = 1

\* C27: every extension recorded for a database name is loaded in the handle
\* registered under that name; and when get_db_connection has created a handle, the
\* extensions load_extension loaded meanwhile are loaded in the handle it returns
\* and are still recorded.
RecordedAreLoaded ==
    /\ \A d \in DOMAIN db_extensions \cap DOMAIN db_connections :
           \A i \in DOMAIN db_extensions[d] :
               <<db_connections[d], db_extensions[d][i]>> \in loaded
    /\ \A q \in Ids :
           pc[q] = "exec" =>
               \A n \in loc[q].got :
                   /\ <<loc[q].conn, n>> \in loaded
                   /\ In(ExtensionsOf(req[q].db_name), n)

(***************************************************************************)
(* Properties of create_database under DbSpec.                             *)
(***************************************************************************)
\* A call of create_database: the registry, the handles and the Tasks are not
\* touched; a name that is not alphanumeric is answered 400 and no file appears; an
\* alphanumeric name is answered 201 with its file in DB_DIR, or 500.
CreateStep ==
    created' # created =>
        LET d == created'.name
            a == created'.status
        IN  /\ UNCHANGED <<db_connections, nconn, opened, query_results, db_extensions>>
            /\ db_files' \subseteq db_files \cup {d}
            /\ ~isalnum(Spelling(d)) => a = 400 /\ db_files' = db_files
            /\ isalnum(Spelling(d)) => a \in {201, 500} /\ (a = 201 => d \in db_files')

\* The submission that obtains its handle after a successful create_database of its
\* database gets a handle on the file that call created, registered under the name.
FollowingStep ==
    \A q \in Ids :
        /\ pc[q] = "conn_new" /\ pc'[q] = "exec"
        /\ created.status = 201 /\ created.name = req[q].db_name
        => /\ opened'[loc'[q].conn].existed
           /\ db_connections'[req[q].db_name] = loc'[q].conn

\* Such a submission ends in error only when a call into the driver raises.
DriverErrorsOnly ==
    \A q \in DOMAIN query_results :
        query_results[q].status = "error" => query_results[q].error = Some("sqlean.Error")

\* C25: create_database answers a name that is empty or not alphanumeric with 400,
\* without opening or creating a file and without touching the registry; for an
\* alphanumeric name it creates the database, and a following submission on that name
\* runs on the created database and completes unless the driver raises.
CreateDatabaseValidates == []DriverErrorsOnly /\ [][CreateStep /\ FollowingStep]_vars

\* A name was refused after sales was created, and a submission on sales, whose
\* handles were all opened on the existing file, has completed.
CreateDatabaseValidatesWitness ==
    /\ created = [name |-> "", status |-> 400]
    /\ \E q \in Ids :
           /\ pc[q] = "done"
           /\ req[q].db_name = "sales"
           /\ query_results[q].status = "completed"
    /\ \A h \in DOMAIN opened : opened[h].name = "sales" => opened[h].existed
    /\ db_files = {"default", "sales"}

(***************************************************************************)
(* Properties of the cache keys under KeySpec.                             *)
(***************************************************************************)
\* The submissions whose worker has computed its cache key.
Keyed == {q \in DOMAIN req : pc[q] \in (WorkerPcs \cup {"done"})}

\* C26: two submissions that differ in the database name or in params have different
\* cache keys; two on the same database with equal params whose queries differ only
\* in whitespace runs and letter case have the same key.
DistinctKeys ==
    \A p, q \in Keyed :
        /\ (req[p].db_name # req[q].db_name \/ req[p].params # req[q].params)
               => KeyOf(p) # KeyOf(q)
        /\ ( /\ req[p].db_name = req[q].db_name
             /\ req[p].params = req[q].params
             /\ Normalize(req[p].query) = Normalize(req[q].query) )
               => KeyOf(p) = KeyOf(q)

(***************************************************************************)
(* Properties of cached reads under StaleSpec.                             *)
(***************************************************************************)
\* C28: while the entry of a read is neither expired, evicted nor overwritten, every
\* submission of the same read without force_refresh ends completed, with cached
\* true and the stored payload, whatever writes have completed meanwhile.
CachedReadsServed ==
    \A q \in Ids :
        pc[q] = "done" /\ IsSelect(req[q].query) =>
            query_results[q] = CompletedTask(WarmRows, TRUE, "0.0")
====
